---- MODULE Spec2Model ----
(***************************************************************************)
(* Hephaestus: the TTL-gated scrape handler (server/handler.rs), the       *)
(* per-probe collectors and their cached measurements (metrics/*.rs), the  *)
(* request timeout of the router (server.rs) and the start-up state        *)
(* (bin/hephaestus.rs).                                                    *)
(*                                                                         *)
(* The runtime is tokio's current_thread flavour: a task runs from one     *)
(* suspension point to the next without interleaving, so every action      *)
(* below is one such run.  Time is in milliseconds.                        *)
(***************************************************************************)
EXTENDS Integers, Sequences, FiniteSets, TLC

\* ------------------------------------------------------------- bounds
\* The model's horizon and the clock's step.
MaxTime == 2500
TickMs == 500
\* configuration.http.timeout of this run (any u64; the default is 10000).
HttpTimeoutMs == 1500
\* Distinct raw readings a data source can answer with: 1..MaxReading.
MaxReading == 2
\* Requests that can be in the handler at one time.
NumRenders == 2
\* Timestamps a data-source double can put on a delivered snapshot.
MaxDeliverTs == 2
\* Entities (devices) a snapshot can hold, and the largest value of a field.
MaxEntities == 2
MaxValue == 1
\* The jiffies a counter row can hold in all: current rows, previous rows.
MaxCurrTotal == 3
MaxPrevTotal == 1
\* A raw read of /proc/stat: 1..MaxRows "cpu" rows at a counter level of
\* 0..MaxLevel; the sampler's clock runs to MaxRateTime in steps of RateTickMs.
MaxRows == 2
MaxLevel == 2
MaxRateTime == 750
RateTickMs == 125
\* The largest value of a container's cumulative cpu counters, and the
\* online_cpus the daemon reports when it reports one.
MaxCpuCounter == 2
HostCpus == 2
\* The entries a UPS parameter table can hold.
MaxParams == 3
\* The lines a NUT server sends in answer to one LIST command before it
\* ends the listing.
MaxLines == 2
\* The ups_stats() calls that return Ok within the model's horizon.
MaxCycles == 2

\* ---------------------------------------------------- program constants
\* Duration::from_secs(1) of the handler's gate.
TtlMs == 1000
\* Duration::from_hours(1) subtracted from the start-up instant.
StaleOffsetMs == 3600000

Renders == 1..NumRenders
NoRender == 0
Readings == 1..MaxReading

\* The collectors of the scrape path, one for each way a collect() of
\* init_collectors stores what it read.  "ups" stands for the collectors
\* that return on a failed read and otherwise cache an Option<Stats> behind
\* a mutex (ups, zfs_arc, docker); "network_io" for those that log a failed
\* read and hand None to update_measurement_if (network_io, zfs_dataset);
\* "cpu_usage" for those that set every gauge after their one read, with no
\* suspension point in between (cpu_usage, cpu_frequency); "memory_usage"
\* is the collector that reads twice and sets gauges after each read.
\* disk_io and disk_smart return on a failed read as "ups" does and store
\* under their lock in one step; their store rules are among DeliverKinds.
SnapshotProbes == {"ups", "network_io"}
GaugeProbes == {"cpu_usage", "memory_usage"}
Probes == SnapshotProbes \cup GaugeProbes
\* The probes whose collect path locks a std Mutex in the code at hand.
PoisonableProbes == {"ups", "cpu_usage"}
\* The store rules exercised directly with a data-source double.
DeliverKinds == SnapshotProbes \cup {"disk_io", "disk_smart"}

VARIABLES
    enabled,          \* per probe: configuration.collector.<probe>.enabled
    poisoned,         \* the probes whose std Mutex a panicking holder has poisoned
    now,              \* the monotonic clock (tokio::time::Instant)
    last_collection,  \* Inner.last_collection, the value inside the mutex
    lock_holder,      \* the render holding the last_collection mutex, or NoRender
    pc,               \* per render: "idle" | "refreshing"
    started,          \* per render: the instant its request entered the handler
    coll,             \* per render and probe: the state of that collect() future
    measurements,     \* per snapshot probe: Arc<Mutex<Option<Stats>>>
    gauges,           \* the gauges of cpu_usage and memory_usage in the registry
    gauges_set_at,    \* history: per group of gauges, the instant of its last set()
    report_swap,      \* configuration.collector.memory_usage.report_swap
    mem_call,         \* per render: where its MemoryUsageCollector::collect() is, and
                      \* (history) the memory gauges at the time it was created
    fanout_starts,    \* history: the instants at which refresh fan-outs began
    last_resp,        \* the response sent by the latest step, if it sent one
    delivered,        \* per store rule: the Option<Stats> a data-source double fed
    emit_stats,       \* the Option<Stats> a prometheus Collector reads on gather
    emit_out,         \* the Vec<MetricFamily> its collect() returned, per kind
    usage_prev,       \* calculate_usage: the argument prev
    usage_curr,       \* calculate_usage: the argument curr
    usage_out,        \* calculate_usage: what the call returned, with its deltas
    rate_clock,       \* the clock of the rate sampler (tokio::time::Instant)
    rate_state,       \* CpuUsage.measurement: Mutex<Option<(Instant, Vec<[u64; 10]>)>>
    rate_call,        \* the locals of the cpu_usage() call in progress, and where it is
    rate_last,        \* what the last cpu_usage() call returned, and what it had read
    prev_cpu_stats,   \* DockerClient.prev_cpu_stats: Mutex<HashMap<String, CpuStats>>
    docker_cycle,     \* the locals of the docker_stats() call in progress
    docker_last,      \* what the last docker_stats() call returned, and what it had read
    ups_params,       \* collect_device_parameters: the argument params
    ups_device,       \* collect_device_parameters: the UpsDeviceStats it returned
    nut_session,      \* the locals of the ups_stats() call, and where it is
    nut_log,          \* history: what the call did on its connection, in order
    smart_cycle       \* the locals of the disk_temps() call, and where it is

\* The state of the scrape path.
coordVars == <<enabled, poisoned, now, last_collection, lock_holder, pc, started, coll,
               measurements, gauges, gauges_set_at, report_swap, mem_call, fanout_starts,
               last_resp>>
\* The state of the units exercised on their own.
unitVars == <<delivered, emit_stats, emit_out, usage_prev, usage_curr, usage_out,
              rate_clock, rate_state, rate_call, rate_last, prev_cpu_stats,
              docker_cycle, docker_last, ups_params, ups_device, nut_session,
              nut_log, smart_cycle>>

\* What a step of unit k leaves alone: the scrape path and the other units.
UnitFrame(k) ==
    /\ UNCHANGED coordVars
    /\ IF k = "deliver" THEN TRUE ELSE UNCHANGED <<delivered>>
    /\ IF k = "emit" THEN TRUE ELSE UNCHANGED <<emit_stats, emit_out>>
    /\ IF k = "usage" THEN TRUE ELSE UNCHANGED <<usage_prev, usage_curr, usage_out>>
    /\ IF k = "rate" THEN TRUE ELSE UNCHANGED <<rate_clock, rate_state, rate_call, rate_last>>
    /\ IF k = "docker" THEN TRUE ELSE UNCHANGED <<prev_cpu_stats, docker_cycle, docker_last>>
    /\ IF k = "ups" THEN TRUE ELSE UNCHANGED <<ups_params, ups_device>>
    /\ IF k = "nut" THEN TRUE ELSE UNCHANGED <<nut_session, nut_log>>
    /\ IF k = "smart" THEN TRUE ELSE UNCHANGED <<smart_cycle>>

vars == <<coordVars, unitVars>>

\* ------------------------------------------------------------ snapshots
\* Option<Stats>: None, or a timestamp with a payload.  The payload's two
\* fields are both taken from the one reading the data source answered with.
NoSnapshot == [present |-> FALSE, timestamp |-> 0, first |-> 0, second |-> 0]
Snapshot(ts, v) == [present |-> TRUE, timestamp |-> ts, first |-> v, second |-> v]

\* The gauges before the first collection: registered, nothing set.
UnsetGauges == [total_usage |-> 0, total_breakdown |-> 0, swap_used |-> 0, ram_used |-> 0]

\* |old, new| old.timestamp < new.timestamp
IsNewer(old, new) == old.timestamp < new.timestamp

\* metrics::util::update_measurement_if: keep the stored value when nothing
\* new arrived; store into an empty slot; otherwise replace when the
\* caller's predicate accepts.
UpdateMeasurementIf(old, new) ==
    IF ~new.present THEN old
    ELSE IF ~old.present THEN new
    ELSE IF IsNewer(old, new) THEN new
    ELSE old

\* DiskIoCollector::collect, the match on the guard.
DiskIoStore(old, new) ==
    IF ~old.present THEN new
    ELSE IF old.timestamp < new.timestamp THEN new
    ELSE old

\* DiskTempCollector::collect: *guard = Some(stats).
DiskTempStore(old, new) == new

\* What collect() of each kind leaves stored after its data source answered.
StoreMeasurement(kind, old, new) ==
    CASE kind = "disk_io" -> DiskIoStore(old, new)
      [] kind = "disk_smart" -> DiskTempStore(old, new)
      [] OTHER -> UpdateMeasurementIf(old, new)

\* CpuUsageCollector::collect after the data source answered: every gauge is
\* set from the one CpuUsageStats, with no suspension point in between.
SetGauges(old, v) == [old EXCEPT !.total_usage = v, !.total_breakdown = v]

\* MemoryUsageCollector::collect: the swap gauges are set from the SwapStats
\* of swap(), and after the next suspension point the ram gauges from the
\* RamStats of ram().
SetSwapGauges(old, v) == [old EXCEPT !.swap_used = v]
SetRamGauges(old, v) == [old EXCEPT !.ram_used = v]

\* The gauges of the memory_usage collector among all gauges.
MemoryGauges(g) == [swap_used |-> g.swap_used, ram_used |-> g.ram_used]

\* The groups of gauges a collect() sets together, and the instant recorded
\* for a group no collect() has set yet.
GaugeGroups == {"cpu_usage", "swap", "ram"}
NeverSet == -1

\* No collect() of the memory_usage collector is in progress.
NoMemCall == [pc |-> "idle", before |-> MemoryGauges(UnsetGauges)]

\* What collect() leaves stored when its data source failed: the `?` returns
\* before the lock is taken (ups, disk_smart, disk_io) or before a gauge is
\* set by this read (cpu_usage; memory_usage, whose failing ram() leaves
\* the swap gauges as its own swap() read has set them); network_io hands
\* None to update_measurement_if.
StoreOnFailure(kind, old) ==
    IF kind = "network_io" THEN UpdateMeasurementIf(old, NoSnapshot) ELSE old

GaugesOnFailure(old) == old

\* The Result collect() returns when its data source failed: network_io
\* logs and swallows the error, the others propagate it.
ResultOnFailure(kind) == IF kind = "network_io" THEN "ok_stale" ELSE "err"

\* ------------------------------------------------------- metric families
\* Option<T> of an optional field.
None == [some |-> FALSE, v |-> 0]
Some(x) == [some |-> TRUE, v |-> x]

FieldValues == {None} \cup {Some(x) : x \in 0..MaxValue}

\* The descriptors of the two collectors with optional fields modelled here.
EmitKinds == {"ups", "disk_smart"}
Descs(kind) == IF kind = "ups" THEN <<"battery_level", "load">>
               ELSE <<"temperature", "wear_level">>
DescSet(kind) == {Descs(kind)[i] : i \in DOMAIN Descs(kind)}

\* util::gauge: one family holding one metric.
Gauge(desc, labels, value) ==
    [name |-> desc, metric |-> <<[label |-> labels, value |-> value]>>]

\* util::maybe_gauge / maybe_counter: push a family only for Some(v).
MaybeGaugeSentinel(families, desc, labels, val) ==
    Append(families, Gauge(desc, labels, val.v))
MaybeGauge(families, desc, labels, val) ==
    IF val.some THEN Append(families, Gauge(desc, labels, val.v)) ELSE families

\* ups::Metrics::build_metric_family, the loop over stats.devices.
RECURSIVE BuildMetrics(_, _)
BuildMetrics(devices, desc) ==
    IF devices = << >> THEN << >>
    ELSE LET ups == Head(devices) IN
         ( IF ups.fields[desc].some
           THEN <<[label |-> ups.device, value |-> ups.fields[desc].v]>>
           ELSE << >> ) \o BuildMetrics(Tail(devices), desc)

BuildMetricFamily(desc, stats) == [name |-> desc, metric |-> BuildMetrics(stats.devices, desc)]

\* ups::Metrics::collect
UpsMetricsCollectPlaceholder(state) ==
    [i \in DOMAIN Descs("ups") |->
        IF ~state.present THEN Gauge(Descs("ups")[i], 0, 0)
        ELSE BuildMetricFamily(Descs("ups")[i], state)]
UpsMetricsCollect(state) ==
    IF ~state.present THEN << >>
    ELSE [i \in DOMAIN Descs("ups") |-> BuildMetricFamily(Descs("ups")[i], state)]

\* disk_smart::Metrics::collect, the calls made for one device.
RECURSIVE SmartDeviceFamilies(_, _, _)
SmartDeviceFamilies(families, dev, descs) ==
    IF descs = << >> THEN families
    ELSE SmartDeviceFamilies(
             MaybeGauge(families, Head(descs), dev.device, dev.fields[Head(descs)]),
             dev, Tail(descs))

\* disk_smart::Metrics::collect, the loop over the devices.
RECURSIVE SmartFamilies(_, _)
SmartFamilies(families, devices) ==
    IF devices = << >> THEN families
    ELSE SmartFamilies(SmartDeviceFamilies(families, Head(devices), Descs("disk_smart")),
                       Tail(devices))

SmartMetricsCollect(state) ==
    IF ~state.present THEN << >> ELSE SmartFamilies(<< >>, state.devices)

MetricsCollect(kind, state) ==
    IF kind = "ups" THEN UpsMetricsCollect(state) ELSE SmartMetricsCollect(state)

\* The samples of descriptor desc carrying the labels of one entity.
SamplesOf(families, desc, labels) ==
    {<<i, j>> \in {<<a, b>> \in (DOMAIN families) \X (1..MaxEntities) :
                      b \in DOMAIN families[a].metric} :
        /\ families[i].name = desc
        /\ families[i].metric[j].label = labels}

NoStats == [kind |-> "none", present |-> FALSE, devices |-> << >>]
NotGathered == [kind |-> "none", families |-> << >>]

\* ------------------------------------------------------------ cpu usage
\* The columns of a "cpu" row of /proc/stat.
CPU_USER == 0
CPU_SYSTEM == 2
CPU_IDLE == 3
CPU_IOWAIT == 4
CPU_GUEST == 8
CPU_STATS_COUNT == 10
CPU_TOTAL_COLUMNS == 8

Columns == 0..(CPU_STATS_COUNT - 1)
ZeroRow == [i \in Columns |-> 0]

\* An f64 ratio, kept exact as a fraction with a positive denominator.
Ratio(n, d) == [num |-> n, den |-> d]
RatEq(a, b) == a.num * b.den = b.num * a.den
RatSub(a, b) == Ratio(a.num * b.den - b.num * a.den, a.den * b.den)

\* u64::saturating_sub
SaturatingSubWrapping(a, b) == a - b
SaturatingSub(a, b) == IF a > b THEN a - b ELSE 0

\* iter().take(n).sum()
RECURSIVE SumColumns(_, _)
SumColumns(row, n) == IF n = 0 THEN 0 ELSE row[n - 1] + SumColumns(row, n - 1)

\* deltas.iter().take(CPU_TOTAL_COLUMNS).sum()
TotalDeltaAllColumns(deltas) == SumColumns(deltas, CPU_STATS_COUNT)
TotalDeltaWithGuest(deltas) == SumColumns(deltas, CPU_GUEST + 1)
TotalDelta(deltas) == SumColumns(deltas, CPU_TOTAL_COLUMNS)

\* calculate_usage(curr, prev): (busy_percentage.max(0.0), times), with the
\* deltas it worked from.
CalculateUsage(curr, prev) ==
    LET deltas == [i \in Columns |-> SaturatingSub(curr[i], prev[i])]
        total_delta == TotalDelta(deltas)
    IN IF total_delta = 0
       THEN [busy |-> Ratio(0, 1), times |-> [i \in Columns |-> Ratio(0, 1)],
             deltas |-> deltas]
       ELSE LET times == [i \in Columns |-> Ratio(deltas[i], total_delta)]
                busy_percentage == RatSub(RatSub(Ratio(1, 1), times[CPU_IDLE]),
                                          times[CPU_IOWAIT])
            IN [busy |-> IF busy_percentage.num >= 0 THEN busy_percentage ELSE Ratio(0, 1),
                times |-> times,
                deltas |-> deltas]

NotCalculated ==
    [busy |-> Ratio(0, 1), times |-> [i \in Columns |-> Ratio(0, 1)], deltas |-> ZeroRow,
     returned |-> FALSE]

\* The (prev, curr) pairs of the unit tests of calculate_usage.
UsageTests ==
    { [prev |-> [i \in Columns |-> IF i = CPU_IDLE THEN 100 ELSE 0],
       curr |-> [i \in Columns |-> CASE i = CPU_USER -> 20 [] i = CPU_SYSTEM -> 10
                                      [] i = CPU_IDLE -> 160 [] i = CPU_IOWAIT -> 10
                                      [] OTHER -> 0]],
      [prev |-> [i \in Columns |-> 100], curr |-> [i \in Columns |-> 100]],
      [prev |-> ZeroRow,
       curr |-> [i \in Columns |-> CASE i = CPU_USER -> 10 [] i = CPU_IDLE -> 90
                                      [] i = CPU_GUEST -> 5 [] OTHER -> 0]],
      [prev |-> [i \in Columns |-> 200], curr |-> [i \in Columns |-> 100]] }

\* ------------------------------------------------------------ rate sampler
\* MIN_TIME_BETWEEN_MEASUREMENTS
MinIntervalMs == 250

\* What parse_proc_stat makes of a raw read with n "cpu" rows whose counters
\* stand at the given level: user and idle have counted, the rest is 0.
RawRead(n, level) ==
    [j \in 1..n |-> [i \in Columns |-> IF i \in {CPU_USER, CPU_IDLE} THEN level ELSE 0]]
RawReads == {RawRead(n, level) : n \in 1..MaxRows, level \in 0..MaxLevel}

\* Option<(Instant, Vec<[u64; 10]>)>
NoRateState == [present |-> FALSE, timestamp |-> 0, rows |-> << >>]
RateState(t, rows) == [present |-> TRUE, timestamp |-> t, rows |-> rows]

\* The call's locals while no call is in progress; reads: the raw reads
\* that have answered the call; guard: the call holds a MutexGuard of
\* self.measurement.
NoCall == [pc |-> "idle", timestamp |-> 0, previous |-> << >>, wake_at |-> 0,
           entered |-> NoRateState, reads |-> 0, guard |-> FALSE]
NoSample == [result |-> "none", previous |-> << >>, current |-> << >>,
             cores |-> 0, total_usage |-> Ratio(0, 1), reads |-> 0]

\* if time_since_measurement < MIN_TIME_BETWEEN_MEASUREMENTS { sleep } :
\* where the call suspends next, given the baseline's timestamp.
AfterBaselineNoWait(t, timestamp) == "current_read"
AfterBaseline(t, timestamp) ==
    IF t - timestamp < MinIntervalMs THEN "sleeping" ELSE "current_read"

\* What the measurement mutex holds when the call returns after its current
\* read: the early return of a changed core count comes before the store.
StoreCurrentEager(state, previous, current, t) == RateState(t, current)
StoreCurrentResetting(state, previous, current, t) ==
    IF Len(previous) # Len(current) THEN NoRateState ELSE RateState(t, current)
StoreCurrentUnlessIdle(state, previous, current, t) ==
    IF Len(previous) # Len(current) \/ TotalDelta(CalculateUsage(current[1], previous[1]).deltas) = 0
    THEN state
    ELSE RateState(t, current)
StoreCurrent(state, previous, current, t) ==
    IF Len(previous) # Len(current) THEN state ELSE RateState(t, current)

\* What the call returns after its current read.
SampleOf(previous, current) ==
    IF Len(previous) # Len(current)
    THEN [result |-> "err", previous |-> previous, current |-> current,
          cores |-> 0, total_usage |-> Ratio(0, 1), reads |-> 0]
    ELSE [result |-> "ok", previous |-> previous, current |-> current,
          cores |-> Len(current) - 1,
          total_usage |-> CalculateUsage(current[1], previous[1]).busy,
          reads |-> 0]

\* ------------------------------------------------------------ container cpu
\* The names of the containers the daemon can list.
Containers == {"db", "web"}

\* Option<CpuStats> and Option<f64>
NoCpuStats == [some |-> FALSE, total |-> 0, system |-> 0]
CpuStats(total, system) == [some |-> TRUE, total |-> total, system |-> system]
NoUsage == [some |-> FALSE, num |-> 0, den |-> 1]
Usage(n, d) == [some |-> TRUE, num |-> n, den |-> d]

\* What the stats stream of one container yields: an error or nothing
\* ("skipped"), or a stats object whose cpu counters may be missing.
NoCounters(kind) == [kind |-> kind, total |-> 0, system |-> 0, online_cpus |-> 0]
CpuReadings ==
    [kind : {"cpu"}, total : 0..MaxCpuCounter, system : 0..MaxCpuCounter,
     online_cpus : {0, HostCpus}]
ContainerReadings == {NoCounters("skipped"), NoCounters("no_cpu")} \cup CpuReadings

\* cpu_usage(name, container_stats, prev_measurements), previous being
\* prev_measurements.get(name): the pair (usage, measurement).
CpuUsageKeepingBaseline(reading, previous) ==
    LET current == CpuStats(reading.total, reading.system)
        cpus == IF reading.online_cpus = 0 THEN 1 ELSE reading.online_cpus
        cpu_delta == current.total - previous.total
        sys_delta == current.system - previous.system
    IN IF reading.kind # "cpu" THEN [usage |-> NoUsage, measurement |-> NoCpuStats]
       ELSE IF ~previous.some THEN [usage |-> NoUsage, measurement |-> current]
       ELSE IF current.total <= previous.total \/ current.system <= previous.system
            THEN [usage |-> NoUsage, measurement |-> previous]
       ELSE IF cpu_delta * cpus > cpus * sys_delta
            THEN [usage |-> NoUsage, measurement |-> previous]
       ELSE [usage |-> Usage(cpu_delta * cpus, sys_delta), measurement |-> current]
CpuUsage(reading, previous) ==
    LET current == CpuStats(reading.total, reading.system)
        cpus == IF reading.online_cpus = 0 THEN 1 ELSE reading.online_cpus
        cpu_delta == current.total - previous.total
        sys_delta == current.system - previous.system
    IN IF reading.kind # "cpu" THEN [usage |-> NoUsage, measurement |-> NoCpuStats]
       ELSE IF ~previous.some THEN [usage |-> NoUsage, measurement |-> current]
       ELSE IF current.total <= previous.total \/ current.system <= previous.system
            THEN [usage |-> NoUsage, measurement |-> current]
       ELSE IF cpu_delta * cpus > cpus * sys_delta
            THEN [usage |-> NoUsage, measurement |-> current]
       ELSE [usage |-> Usage(cpu_delta * cpus, sys_delta), measurement |-> current]

NoCpuMap == [c \in Containers |-> NoCpuStats]
\* The locals of docker_stats(); guard: the call holds the MutexGuard of
\* self.prev_cpu_stats.lock().await.
NoCycle ==
    [pc |-> "idle", guard |-> FALSE, pending |-> << >>,
     current_cpu_stats |-> NoCpuMap,
     usage |-> [c \in Containers |-> NoUsage],
     readings |-> [c \in Containers |-> NoCounters("none")]]
NoDockerStats ==
    [result |-> "none", usage |-> [c \in Containers |-> NoUsage],
     readings |-> [c \in Containers |-> NoCounters("none")],
     had_baseline |-> [c \in Containers |-> FALSE]]

\* The lists docker.list_containers can answer with: the running containers
\* in the daemon's order.
ContainerLists == {<< >>, <<"db">>, <<"web">>, <<"db", "web">>}

\* ------------------------------------------------------- ups parameters
\* Option<f64>, the number kept exact as a fraction.
NoValue == [some |-> FALSE, num |-> 0, den |-> 1]
Value(n, d) == [some |-> TRUE, num |-> n, den |-> d]

\* The keys and the values a LIST VAR response is taken to carry.
ParamKeys ==
    {"battery.charge", "battery.level", "ups.load", "output.load", "ups.realpower",
     "output.realpower", "ups.realpower.nominal", "ups.power", "ups.power.nominal"}
ParamValues == {"0", "50", "80", "1000", "n/a"}

\* v.parse::<f64>().ok() on those values.
ParseF64(v) ==
    CASE v = "0" -> Value(0, 1)
      [] v = "50" -> Value(50, 1)
      [] v = "80" -> Value(80, 1)
      [] v = "1000" -> Value(1000, 1)
      [] OTHER -> NoValue

\* as_percents
AsPercents(x) == IF x.some THEN Value(x.num, x.den * 100) ELSE NoValue

\* find(keys) that stops at the first key the table holds.
RECURSIVE FindFirstPresent(_, _)
FindFirstPresent(params, keys) ==
    IF keys = << >> THEN NoValue
    ELSE IF Head(keys) \in DOMAIN params
         THEN ParseF64(params[Head(keys)])
         ELSE FindFirstPresent(params, Tail(keys))

\* find(keys): the first key that is in the table and parses.
RECURSIVE Find(_, _)
Find(params, keys) ==
    IF keys = << >> THEN NoValue
    ELSE IF Head(keys) \in DOMAIN params /\ ParseF64(params[Head(keys)]).some
         THEN ParseF64(params[Head(keys)])
         ELSE Find(params, Tail(keys))

\* match (nominal, load) { (Some(nom), Some(load)) if nom > 0.0 => Some(nom * load), _ => None }
DerivedPowerUnguarded(nominal, load) ==
    IF nominal.some /\ load.some
    THEN Value(nominal.num * load.num, nominal.den * load.den)
    ELSE NoValue
DerivedPower(nominal, load) ==
    IF nominal.some /\ load.some /\ nominal.num > 0
    THEN Value(nominal.num * load.num, nominal.den * load.den)
    ELSE NoValue

\* collect_device_parameters(device_name, params)
CollectDeviceParameters(params) ==
    LET estimated_runtime == Find(params, <<"battery.runtime", "battery.runtime.low">>)
        battery_level ==
            AsPercents(Find(params, <<"battery.charge", "battery.level",
                                      "battery.charge.approx">>))
        load == AsPercents(Find(params, <<"ups.load", "output.load">>))
        input_voltage == Find(params, <<"input.voltage">>)
        output_voltage == Find(params, <<"output.voltage">>)
        nominal_apparent_power ==
            Find(params, <<"ups.power.nominal", "output.power.nominal">>)
        nominal_real_power ==
            Find(params, <<"ups.realpower.nominal", "output.realpower.nominal">>)
        found_real_power == Find(params, <<"ups.realpower", "output.realpower">>)
        real_power == IF found_real_power.some THEN found_real_power
                      ELSE DerivedPower(nominal_real_power, load)
        found_apparent_power == Find(params, <<"ups.power", "output.power">>)
        apparent_power == IF found_apparent_power.some THEN found_apparent_power
                          ELSE DerivedPower(nominal_apparent_power, load)
    IN [estimated_runtime |-> estimated_runtime,
        battery_level |-> battery_level,
        input_voltage |-> input_voltage,
        output_voltage |-> output_voltage,
        load |-> load,
        real_power |-> real_power,
        apparent_power |-> apparent_power,
        nominal_apparent_power |-> nominal_apparent_power,
        nominal_real_power |-> nominal_real_power]

\* HashMap::new()
NoParams == [k \in {} |-> "n/a"]
NotProjected == [returned |-> FALSE] @@ CollectDeviceParameters(NoParams)

\* ------------------------------------------------------------ ups session
\* The devices a NUT server can name.
UpsNames == {"apc", "eaton"}

\* The lines the server can send, as their whitespace-separated tokens.
UpsLines ==
    {<<"UPS", n, "\"desc\"">> : n \in UpsNames}
    \cup {<<"BEGIN", "LIST", "UPS">>, <<"END", "LIST", "UPS">>, <<"UPS">>, << >>}
VarLines ==
    {<<"VAR", n, "ups.load", "\"50\"">> : n \in UpsNames}
    \cup {<<"BEGIN", "LIST", "VAR", n>> : n \in UpsNames}
    \cup {<<"END", "LIST", "VAR", n>> : n \in UpsNames}
    \cup {<<"ERR", "UNKNOWN-UPS">>}

\* trimmed == "END LIST UPS"
IsEndListUps(line) == line = <<"END", "LIST", "UPS">>

\* parts.len() >= 2 && parts[0] == "UPS" => names.push(parts[1])
ParseUpsLine(names, line) ==
    IF Len(line) >= 2 /\ line[1] = "UPS" THEN Append(names, line[2]) ELSE names

\* trimmed.starts_with("END LIST VAR")
IsEndListVar(line) ==
    Len(line) >= 3 /\ line[1] = "END" /\ line[2] = "LIST" /\ line[3] = "VAR"

\* trim_matches('"')
TrimQuotes(v) == IF v = "\"50\"" THEN "50" ELSE v

\* parts = trimmed.splitn(4, ' '); parts.len() >= 4 => params.insert(parts[2], ..)
ParseVarLine(params, line) ==
    IF Len(line) >= 4
    THEN [k \in DOMAIN params \cup {line[3]} |->
             IF k = line[3] THEN TrimQuotes(line[4]) ELSE params[k]]
    ELSE params

\* What the call did on its connection.
Event(ev, arg) == [ev |-> ev, arg |-> arg]

\* A read_line of this connection has returned 0: every later one does.
StreamEnded(log) == \E i \in DOMAIN log : log[i] = Event("end", "eof")

\* Option<UpsStats>, as UpsCollector.measurements holds it and as collect()
\* hands it to the store rule.
NoUpsStats == [present |-> FALSE, timestamp |-> 0, devices |-> << >>]
UpsStats(ts, devices) == [present |-> TRUE, timestamp |-> ts, devices |-> devices]

\* The locals of ups_stats() while no call is in progress; stored: what
\* UpsCollector.measurements holds.
NoSession ==
    [pc |-> "idle", names |-> << >>, device |-> 0, lines |-> 0, params |-> NoParams,
     devices |-> << >>, stored |-> NoUpsStats]

\* The for loop of ups_stats once `listed` devices have been listed: the
\* next LIST VAR goes to the next discovered name, or the call is done.
NextDeviceReversed(names, listed) ==
    IF listed < Len(names) THEN names[Len(names) - listed] ELSE ""
NextDevice(names, listed) ==
    IF listed < Len(names) THEN names[listed + 1] ELSE ""

\* ------------------------------------------------------------------ smart
\* The device paths smartctl --scan can name.
DevicePaths == {"/dev/sda", "/dev/sdb", "/dev/nvme0"}

\* How a run of smartctl -a on one device ends: it could not be spawned, or
\* it exited with a status; json: its stdout parses as JSON; dev_type: the
\* string at json["device"]["type"], "" when there is none.  Beside the
\* documents of a SATA and of an NVMe device there are the run that exits
\* with status 0 and prints no JSON and the one whose document names no type.
QueryOutcomes ==
    [spawned : {TRUE}, status : {0, 2, 4}, json : {TRUE}, dev_type : {"sata", "nvme"}]
    \cup {[spawned |-> FALSE, status |-> 0, json |-> FALSE, dev_type |-> ""],
          [spawned |-> TRUE, status |-> 0, json |-> FALSE, dev_type |-> ""],
          [spawned |-> TRUE, status |-> 0, json |-> TRUE, dev_type |-> ""]}
NotQueried == [spawned |-> FALSE, status |-> 0, json |-> FALSE, dev_type |-> "none"]

\* query_device: Err when the command cannot be run, Ok(None) for exit
\* status 2, Err for any other unsuccessful status, Err when
\* serde_json::from_slice fails on stdout, Ok(Some(Nvme(..))) when the
\* document's device type is "nvme" and Ok(Some(Sata(..))) otherwise.
QueryDeviceStandbyUnchecked(outcome) ==
    IF ~outcome.spawned THEN "err"
    ELSE IF outcome.status # 0 /\ outcome.status # 2 THEN "err"
    ELSE IF ~outcome.json THEN "err"
    ELSE IF outcome.dev_type = "nvme" THEN "nvme"
    ELSE "sata"
QueryDevice(outcome) ==
    IF ~outcome.spawned THEN "err"
    ELSE IF outcome.status # 0 /\ outcome.status = 2 THEN "skipped"
    ELSE IF outcome.status # 0 THEN "err"
    ELSE IF ~outcome.json THEN "err"
    ELSE IF outcome.dev_type = "nvme" THEN "nvme"
    ELSE "sata"

NoSmartCycle ==
    [pc |-> "idle", scanned |-> {},
     outcomes |-> [d \in DevicePaths |-> NotQueried],
     results |-> [d \in DevicePaths |-> "none"],
     sata |-> << >>, nvme |-> << >>]

\* ------------------------------------------------------------ registration
\* Metric::register: a disabled probe hands back the NoOpCollector before
\* anything is created; an enabled one hands back its own collector.
RegisterMutant(p, is_enabled) == p
Register(p, is_enabled) == IF ~is_enabled THEN "noop" ELSE p

\* The descriptors Metric::register leaves in the registry: the early return
\* of a disabled probe comes before Metrics::register.
RegisteredDescs(p, is_enabled) == IF ~is_enabled THEN {} ELSE {p}

\* The first poll of a collect() future: NoOpCollector::collect has no
\* suspension point and returns Ok(()); CpuUsage::cpu_usage locks its
\* measurement before its first await and returns Err when the lock is
\* poisoned; the others wait for their data source.
FirstPollIgnoringPoison(collector, lock_poisoned) ==
    IF collector = "noop" THEN "ok" ELSE "running"
FirstPoll(collector, lock_poisoned) ==
    IF collector = "noop" THEN "ok"
    ELSE IF collector = "cpu_usage" /\ lock_poisoned THEN "err"
    ELSE "running"

\* The first poll of MemoryUsageCollector::collect: it waits in swap() when
\* swap_metrics is Some, which is when report_swap is set, and in ram()
\* otherwise.
MemoryFirstPoll(collector, swap, g) ==
    IF collector # "memory_usage" THEN NoMemCall
    ELSE [pc |-> IF swap THEN "swap_read" ELSE "ram_read", before |-> MemoryGauges(g)]

\* ------------------------------------------------------------- handler
\* state.last_collection.try_lock() is Ok
TryLockMutant(holder) == TRUE
TryLock(holder) == holder = NoRender

\* last_collection.elapsed() > Duration::from_secs(1)
TtlExpiredMutant(t, last) == t - last >= TtlMs
TtlExpired(t, last) == t - last > TtlMs

\* Instant::now().sub(Duration::from_hours(1))
InitialLastCollectionMutant(t) == t
InitialLastCollection(t) == t - StaleOffsetMs

\* refresh_measurements, the loop body: an Err is logged, nothing else.
OnCollectResultAborting(row, p, res) ==
    IF res = "err"
    THEN [q \in Probes |-> IF q = p THEN res
                           ELSE IF row[q] = "running" THEN "dropped" ELSE row[q]]
    ELSE [row EXCEPT ![p] = res]
OnCollectResult(row, p, res) == [row EXCEPT ![p] = res]

\* The loop `while let Some(result) = futures.next().await` ends when the
\* FuturesUnordered is empty: every collect() has returned.
JoinedOnFirst(row) == \E q \in Probes : row[q] # "running"
Joined(row) == \A q \in Probes : row[q] # "running"

IdleRow == [p \in Probes |-> "idle"]

\* registry.gather(): the values stored at the instant of the call.
\* Only registered descriptors are gathered.
Gather(m, g) ==
    [measurements |-> m, gauges |-> g,
     descs |-> UNION {RegisteredDescs(p, enabled[p]) : p \in Probes}]
NoBody ==
    [measurements |-> [p \in SnapshotProbes |-> NoSnapshot], gauges |-> UnsetGauges,
     descs |-> {}]

\* encode_response, with the branch the handler took and the collect()
\* results of the render's fan-out kept for the record.
EncodeResponse(r, gate, t, m, g, row) ==
    [render |-> r, status |-> 200, gate |-> gate, at |-> t,
     body |-> Gather(m, g), results |-> row]

\* TimeoutLayer::with_status_code(INTERNAL_SERVER_ERROR, ..)
TimeoutResponse(r, t, row) ==
    [render |-> r, status |-> 500, gate |-> "refresh", at |-> t,
     body |-> NoBody, results |-> row]

NoResponse ==
    [render |-> NoRender, status |-> 0, gate |-> "none", at |-> 0,
     body |-> NoBody, results |-> IdleRow]

\* ---------------------------------------------------------------- Init
InitState ==
    /\ poisoned = {}
    /\ now = 0
    /\ last_collection = InitialLastCollection(0)
    /\ lock_holder = NoRender
    /\ pc = [r \in Renders |-> "idle"]
    /\ started = [r \in Renders |-> 0]
    /\ coll = [r \in Renders |-> IdleRow]
    /\ measurements = [p \in SnapshotProbes |-> NoSnapshot]
    /\ gauges = UnsetGauges
    /\ gauges_set_at = [k \in GaugeGroups |-> NeverSet]
    /\ mem_call = [r \in Renders |-> NoMemCall]
    /\ fanout_starts = << >>
    /\ last_resp = NoResponse
    /\ delivered = [k \in DeliverKinds |-> NoSnapshot]
    /\ emit_stats = NoStats
    /\ emit_out = NotGathered
    /\ usage_prev = ZeroRow
    /\ usage_curr = ZeroRow
    /\ usage_out = NotCalculated
    /\ rate_clock = 0
    /\ rate_state = NoRateState
    /\ rate_call = NoCall
    /\ rate_last = NoSample
    /\ prev_cpu_stats = NoCpuMap
    /\ docker_cycle = NoCycle
    /\ docker_last = NoDockerStats
    /\ ups_params = NoParams
    /\ ups_device = NotProjected
    /\ nut_session = NoSession
    /\ nut_log = << >>
    /\ smart_cycle = NoSmartCycle

\* Every configuration of the probes that store in one step, with
\* memory_usage disabled; InitMemory below enables it.
Init ==
    /\ enabled \in {e \in [Probes -> BOOLEAN] : ~e["memory_usage"]}
    /\ report_swap = FALSE
    /\ InitState

\* Every probe enabled, swap reporting at its default.
InitDefault ==
    /\ enabled = [p \in Probes |-> TRUE]
    /\ report_swap = FALSE
    /\ InitState

\* ------------------------------------------------------------- actions
\* The clock advances.  A request whose deadline has passed is answered by
\* the timeout layer before any later instant is seen.
Tick ==
    /\ now + TickMs <= MaxTime
    /\ \A r \in Renders : pc[r] = "refreshing" => now - started[r] < HttpTimeoutMs
    /\ now' = now + TickMs
    /\ last_resp' = NoResponse
    /\ UNCHANGED <<enabled, report_swap, poisoned, last_collection, lock_holder, pc,
                   started, coll, measurements, gauges, gauges_set_at, mem_call, fanout_starts, unitVars>>

\* metrics(), the gate closed: try_lock failed, or the last refresh is
\* within the TTL.  The handler goes straight to encode_response.
MetricsNoRefreshStamping(r) ==
    /\ pc[r] = "idle"
    /\ ~(TryLock(lock_holder) /\ TtlExpired(now, last_collection))
    /\ last_resp' = EncodeResponse(r, IF TryLock(lock_holder) THEN "fresh" ELSE "busy",
                                   now, measurements, gauges, IdleRow)
    /\ last_collection' = IF TryLock(lock_holder) THEN now ELSE last_collection
    /\ UNCHANGED <<enabled, report_swap, poisoned, now, lock_holder, pc, started, coll,
                   measurements, gauges, gauges_set_at, mem_call, fanout_starts, unitVars>>
MetricsNoRefresh(r) ==
    /\ pc[r] = "idle"
    /\ ~(TryLock(lock_holder) /\ TtlExpired(now, last_collection))
    /\ last_resp' = EncodeResponse(r, IF TryLock(lock_holder) THEN "fresh" ELSE "busy",
                                   now, measurements, gauges, IdleRow)
    /\ UNCHANGED <<enabled, report_swap, poisoned, now, last_collection, lock_holder, pc,
                   started, coll, measurements, gauges, gauges_set_at, mem_call, fanout_starts, unitVars>>

\* metrics(), the gate open: last_collection is set, and refresh_measurements
\* creates and first polls every collect() while the guard stays alive.
\* When no collect() is left pending the loop ends in the same run.
MetricsRefreshUnstamped(r) ==
    LET row == [p \in Probes |-> FirstPoll(Register(p, enabled[p]), p \in poisoned)] IN
    /\ pc[r] = "idle"
    /\ TryLock(lock_holder)
    /\ TtlExpired(now, last_collection)
    /\ fanout_starts' = Append(fanout_starts, now)
    /\ mem_call' = [mem_call EXCEPT ![r] =
                       MemoryFirstPoll(Register("memory_usage", enabled["memory_usage"]),
                                       report_swap, gauges)]
    /\ IF Joined(row)
       THEN /\ last_resp' = EncodeResponse(r, "refresh", now, measurements,
                                           gauges, row)
            /\ UNCHANGED <<lock_holder, pc, started, coll>>
       ELSE /\ lock_holder' = r
            /\ pc' = [pc EXCEPT ![r] = "refreshing"]
            /\ started' = [started EXCEPT ![r] = now]
            /\ coll' = [coll EXCEPT ![r] = row]
            /\ last_resp' = NoResponse
    /\ UNCHANGED <<enabled, report_swap, poisoned, now, last_collection, measurements,
                   gauges, gauges_set_at, unitVars>>
MetricsRefreshUnlocked(r) ==
    LET row == [p \in Probes |-> FirstPoll(Register(p, enabled[p]), p \in poisoned)] IN
    /\ pc[r] = "idle"
    /\ TryLock(lock_holder)
    /\ TtlExpired(now, last_collection)
    /\ last_collection' = now
    /\ fanout_starts' = Append(fanout_starts, now)
    /\ mem_call' = [mem_call EXCEPT ![r] =
                       MemoryFirstPoll(Register("memory_usage", enabled["memory_usage"]),
                                       report_swap, gauges)]
    /\ IF Joined(row)
       THEN /\ last_resp' = EncodeResponse(r, "refresh", now, measurements,
                                           gauges, row)
            /\ UNCHANGED <<lock_holder, pc, started, coll>>
       ELSE /\ UNCHANGED lock_holder
            /\ pc' = [pc EXCEPT ![r] = "refreshing"]
            /\ started' = [started EXCEPT ![r] = now]
            /\ coll' = [coll EXCEPT ![r] = row]
            /\ last_resp' = NoResponse
    /\ UNCHANGED <<enabled, report_swap, poisoned, now, measurements, gauges, gauges_set_at, unitVars>>

MetricsRefresh(r) ==
    LET row == [p \in Probes |-> FirstPoll(Register(p, enabled[p]), p \in poisoned)] IN
    /\ pc[r] = "idle"
    /\ TryLock(lock_holder)
    /\ TtlExpired(now, last_collection)
    /\ last_collection' = now
    /\ fanout_starts' = Append(fanout_starts, now)
    /\ mem_call' = [mem_call EXCEPT ![r] =
                       MemoryFirstPoll(Register("memory_usage", enabled["memory_usage"]),
                                       report_swap, gauges)]
    /\ IF Joined(row)
       THEN /\ last_resp' = EncodeResponse(r, "refresh", now, measurements,
                                           gauges, row)
            /\ UNCHANGED <<lock_holder, pc, started, coll>>
       ELSE /\ lock_holder' = r
            /\ pc' = [pc EXCEPT ![r] = "refreshing"]
            /\ started' = [started EXCEPT ![r] = now]
            /\ coll' = [coll EXCEPT ![r] = row]
            /\ last_resp' = NoResponse
    /\ UNCHANGED <<enabled, report_swap, poisoned, now, measurements, gauges, gauges_set_at, unitVars>>

\* One collect() of render r returns with result res, the stored values
\* being m and g afterwards.  When it was the last one the loop ends, the
\* guard is dropped and the response is encoded in the same run.
Complete(r, p, res, m, g) ==
    LET row == OnCollectResult(coll[r], p, res) IN
    /\ measurements' = m
    /\ gauges' = g
    /\ mem_call' = IF p = "memory_usage" THEN [mem_call EXCEPT ![r] = NoMemCall]
                   ELSE mem_call
    /\ IF Joined(row)
       THEN /\ pc' = [pc EXCEPT ![r] = "idle"]
            /\ coll' = [coll EXCEPT ![r] = IdleRow]
            /\ started' = [started EXCEPT ![r] = 0]
            /\ lock_holder' = IF lock_holder = r THEN NoRender ELSE lock_holder
            /\ last_resp' = EncodeResponse(r, "refresh", now, m, g, row)
       ELSE /\ coll' = [coll EXCEPT ![r] = row]
            /\ last_resp' = NoResponse
            /\ UNCHANGED <<pc, started, lock_holder>>
    /\ UNCHANGED <<enabled, report_swap, poisoned, now, last_collection, fanout_starts,
                   unitVars>>

\* MemoryUsageCollector::collect, from the answer of swap() to the await of
\* ram(): the swap gauges are set and the call suspends again, still one of
\* the fan-out's pending futures.
MemorySwapOk(r, v) ==
    /\ pc[r] = "refreshing"
    /\ coll[r]["memory_usage"] = "running"
    /\ mem_call[r].pc = "swap_read"
    /\ gauges' = SetSwapGauges(gauges, v)
    /\ gauges_set_at' = [gauges_set_at EXCEPT !["swap"] = now]
    /\ mem_call' = [mem_call EXCEPT ![r].pc = "ram_read"]
    /\ last_resp' = NoResponse
    /\ UNCHANGED <<enabled, report_swap, poisoned, now, last_collection, lock_holder, pc,
                   started, coll, measurements, fanout_starts, unitVars>>

\* The data source of probe p answers with reading v, and collect() returns
\* Ok; for memory_usage it is ram() that answers.  UpsCollector recovers a
\* poisoned lock with into_inner and stores as ever; CpuUsage::cpu_usage
\* returns Err from its second lock() when it finds the lock poisoned, which
\* is CollectErr.
CollectOk(r, p, v) ==
    /\ pc[r] = "refreshing"
    /\ coll[r][p] = "running"
    /\ ~(p = "cpu_usage" /\ p \in poisoned)
    /\ p = "memory_usage" => mem_call[r].pc = "ram_read"
    /\ Complete(r, p, "ok",
                IF p \in SnapshotProbes
                THEN [measurements EXCEPT ![p] = StoreMeasurement(p, @, Snapshot(now, v))]
                ELSE measurements,
                IF p = "cpu_usage" THEN SetGauges(gauges, v)
                ELSE IF p = "memory_usage" THEN SetRamGauges(gauges, v)
                ELSE gauges)
    /\ gauges_set_at' = IF p = "cpu_usage" THEN [gauges_set_at EXCEPT !["cpu_usage"] = now]
                        ELSE IF p = "memory_usage" THEN [gauges_set_at EXCEPT !["ram"] = now]
                        ELSE gauges_set_at

\* The data source of probe p fails; for memory_usage it is swap() or ram(),
\* whichever the call is waiting for.
CollectErr(r, p) ==
    /\ pc[r] = "refreshing"
    /\ coll[r][p] = "running"
    /\ Complete(r, p, ResultOnFailure(p),
                IF p \in SnapshotProbes
                THEN [measurements EXCEPT ![p] = StoreOnFailure(p, @)]
                ELSE measurements,
                IF p \in GaugeProbes THEN GaugesOnFailure(gauges) ELSE gauges)
    /\ UNCHANGED gauges_set_at

\* The request's deadline passes: the timeout layer answers and drops the
\* handler's future, and with it the guard and every collect() still pending.
TimeoutKeepingGuard(r) ==
    /\ pc[r] = "refreshing"
    /\ now - started[r] >= HttpTimeoutMs
    /\ pc' = [pc EXCEPT ![r] = "idle"]
    /\ coll' = [coll EXCEPT ![r] = IdleRow]
    /\ started' = [started EXCEPT ![r] = 0]
    /\ mem_call' = [mem_call EXCEPT ![r] = NoMemCall]
    /\ UNCHANGED lock_holder
    /\ last_resp' = TimeoutResponse(r, now,
                        [q \in Probes |-> IF coll[r][q] = "running" THEN "dropped"
                                          ELSE coll[r][q]])
    /\ UNCHANGED <<enabled, report_swap, poisoned, now, last_collection, measurements,
                   gauges, gauges_set_at, fanout_starts, unitVars>>
Timeout(r) ==
    /\ pc[r] = "refreshing"
    /\ now - started[r] >= HttpTimeoutMs
    /\ pc' = [pc EXCEPT ![r] = "idle"]
    /\ coll' = [coll EXCEPT ![r] = IdleRow]
    /\ started' = [started EXCEPT ![r] = 0]
    /\ mem_call' = [mem_call EXCEPT ![r] = NoMemCall]
    /\ lock_holder' = IF lock_holder = r THEN NoRender ELSE lock_holder
    /\ last_resp' = TimeoutResponse(r, now,
                        [q \in Probes |-> IF coll[r][q] = "running" THEN "dropped"
                                          ELSE coll[r][q]])
    /\ UNCHANGED <<enabled, report_swap, poisoned, now, last_collection, measurements,
                   gauges, gauges_set_at, fanout_starts, unitVars>>

Next ==
    \/ Tick
    \/ \E r \in Renders : MetricsNoRefresh(r)
    \/ \E r \in Renders : MetricsRefresh(r)
    \/ \E r \in Renders, p \in Probes, v \in Readings : CollectOk(r, p, v)
    \/ \E r \in Renders, p \in Probes : CollectErr(r, p)
    \/ \E r \in Renders : Timeout(r)

Spec == Init /\ [][Next]_vars

\* A thread panics while it holds the std Mutex of probe p: the lock is
\* poisoned from then on.
Poison(p) ==
    /\ p \notin poisoned
    /\ poisoned' = poisoned \cup {p}
    /\ last_resp' = NoResponse
    /\ UNCHANGED <<enabled, report_swap, now, last_collection, lock_holder, pc, started,
                   coll, measurements, gauges, gauges_set_at, mem_call, fanout_starts, unitVars>>

NextPoison ==
    \/ Tick
    \/ \E r \in Renders : MetricsNoRefresh(r)
    \/ \E r \in Renders : MetricsRefresh(r)
    \/ \E r \in Renders, p \in Probes, v \in Readings : CollectOk(r, p, v)
    \/ \E r \in Renders, p \in Probes : CollectErr(r, p)
    \/ \E r \in Renders : Timeout(r)
    \/ \E p \in PoisonableProbes : Poison(p)

\* The configuration with those probes enabled and the others disabled.
InitPoison ==
    /\ enabled = [p \in Probes |-> p \in PoisonableProbes]
    /\ report_swap = FALSE
    /\ InitState

SpecPoison == InitPoison /\ [][NextPoison]_vars

\* The scrape path with the memory_usage collector in it.
NextMemory ==
    \/ Tick
    \/ \E r \in Renders : MetricsNoRefresh(r)
    \/ \E r \in Renders : MetricsRefresh(r)
    \/ \E r \in Renders, v \in Readings : MemorySwapOk(r, v)
    \/ \E r \in Renders, p \in Probes, v \in Readings : CollectOk(r, p, v)
    \/ \E r \in Renders, p \in Probes : CollectErr(r, p)
    \/ \E r \in Renders : Timeout(r)

\* memory_usage and cpu_usage enabled, swap reporting on or off.
InitMemory ==
    /\ enabled = [p \in Probes |-> p \in GaugeProbes]
    /\ report_swap \in BOOLEAN
    /\ InitState

SpecMemory == InitMemory /\ [][NextMemory]_vars

\* A collector fed by a data-source double: collect() stores what the double
\* answers, whatever its timestamp.
Deliver(k, ts, v) ==
    /\ delivered' = [delivered EXCEPT ![k] = StoreMeasurement(k, @, Snapshot(ts, v))]
    /\ UnitFrame("deliver")

NextDeliver == \E k \in DeliverKinds, ts \in 0..MaxDeliverTs, v \in Readings : Deliver(k, ts, v)

SpecDeliver == InitDefault /\ [][NextDeliver]_vars

\* A collect() stores a snapshot holding one more entity than the last one,
\* each optional field of the new entity present or absent.
EmitStore(kind, id, fields) ==
    /\ emit_stats.kind \in {"none", kind}
    /\ Len(emit_stats.devices) < MaxEntities
    /\ \A i \in DOMAIN emit_stats.devices : emit_stats.devices[i].device # id
    /\ emit_stats' = [kind |-> kind, present |-> TRUE,
                      devices |-> Append(emit_stats.devices,
                                         [device |-> id, fields |-> fields])]
    /\ emit_out' = NotGathered
    /\ UnitFrame("emit")

\* registry.gather() calls the collect() of the Metrics of one kind.
EmitGather(kind) ==
    /\ emit_stats.kind \in {"none", kind}
    /\ emit_out' = [kind |-> kind, families |-> MetricsCollect(kind, emit_stats)]
    /\ UNCHANGED emit_stats
    /\ UnitFrame("emit")

NextEmit ==
    \/ \E kind \in EmitKinds, id \in 1..MaxEntities :
          \E fields \in [DescSet(kind) -> FieldValues] : EmitStore(kind, id, fields)
    \/ \E kind \in EmitKinds : EmitGather(kind)

SpecEmit == InitDefault /\ [][NextEmit]_vars

\* One more jiffy is counted in column i of the previous row.
UsagePrevCounts(i) ==
    /\ ~usage_out.returned
    /\ SumColumns(usage_prev, CPU_STATS_COUNT) < MaxPrevTotal
    /\ SumColumns(usage_curr, CPU_STATS_COUNT) <= MaxCurrTotal
    /\ usage_prev' = [usage_prev EXCEPT ![i] = @ + 1]
    /\ UNCHANGED <<usage_curr, usage_out>>
    /\ UnitFrame("usage")

\* One more jiffy is counted in column i of the current row.
UsageCurrCounts(i) ==
    /\ ~usage_out.returned
    /\ SumColumns(usage_curr, CPU_STATS_COUNT) < MaxCurrTotal
    /\ usage_curr' = [usage_curr EXCEPT ![i] = @ + 1]
    /\ UNCHANGED <<usage_prev, usage_out>>
    /\ UnitFrame("usage")

\* The rows are those of one of the unit tests.
UsageTestRows(t) ==
    /\ ~usage_out.returned
    /\ usage_prev = ZeroRow
    /\ usage_curr = ZeroRow
    /\ usage_prev' = t.prev
    /\ usage_curr' = t.curr
    /\ UNCHANGED usage_out
    /\ UnitFrame("usage")

\* calculate_usage(&curr, &prev) is called.
UsageCalculate ==
    /\ ~usage_out.returned
    /\ usage_out' = [returned |-> TRUE] @@ CalculateUsage(usage_curr, usage_prev)
    /\ UNCHANGED <<usage_prev, usage_curr>>
    /\ UnitFrame("usage")

NextUsage ==
    \/ \E i \in Columns : UsagePrevCounts(i)
    \/ \E i \in Columns : UsageCurrCounts(i)
    \/ \E t \in UsageTests : UsageTestRows(t)
    \/ UsageCalculate

SpecUsage == InitDefault /\ [][NextUsage]_vars

\* The sampler's clock advances.  A sleeping call is woken before any
\* instant later than its deadline is seen.
RateTick ==
    /\ rate_clock + RateTickMs <= MaxRateTime
    /\ rate_call.pc = "sleeping" => rate_clock < rate_call.wake_at
    /\ rate_clock' = rate_clock + RateTickMs
    /\ UNCHANGED <<rate_state, rate_call, rate_last>>
    /\ UnitFrame("rate")

\* cpu_usage() is called: the stored measurement is cloned under the lock.
\* Without one the call suspends in the seed read; with one it suspends in
\* the sleep or in the current read.  The MutexGuard of
\* `self.measurement.lock().map(|x| x.clone())` is a temporary of that
\* statement and is dropped at its end, before the first await.
RateCallHoldingGuard ==
    /\ rate_call.pc = "idle"
    /\ rate_call' =
          IF ~rate_state.present
          THEN [NoCall EXCEPT !.pc = "seed_read", !.entered = rate_state,
                              !.guard = TRUE]
          ELSE [pc |-> AfterBaseline(rate_clock, rate_state.timestamp),
                timestamp |-> rate_state.timestamp,
                previous |-> rate_state.rows,
                wake_at |-> rate_state.timestamp + MinIntervalMs,
                entered |-> rate_state, reads |-> 0, guard |-> TRUE]
    /\ rate_last' = NoSample
    /\ UNCHANGED <<rate_clock, rate_state>>
    /\ UnitFrame("rate")
RateCall ==
    /\ rate_call.pc = "idle"
    /\ rate_call' =
          IF ~rate_state.present
          THEN [NoCall EXCEPT !.pc = "seed_read", !.entered = rate_state]
          ELSE [pc |-> AfterBaseline(rate_clock, rate_state.timestamp),
                timestamp |-> rate_state.timestamp,
                previous |-> rate_state.rows,
                wake_at |-> rate_state.timestamp + MinIntervalMs,
                entered |-> rate_state, reads |-> 0, guard |-> FALSE]
    /\ rate_last' = NoSample
    /\ UNCHANGED <<rate_clock, rate_state>>
    /\ UnitFrame("rate")

\* The seed read answers: it becomes the baseline, stamped with now, and
\* the call goes to sleep for the minimum interval.
RateSeedOkStoring(rows) ==
    /\ rate_call.pc = "seed_read"
    /\ rate_call' = [rate_call EXCEPT !.pc = AfterBaseline(rate_clock, rate_clock),
                                      !.timestamp = rate_clock,
                                      !.previous = rows,
                                      !.wake_at = rate_clock + MinIntervalMs,
                                      !.reads = @ + 1]
    /\ rate_state' = RateState(rate_clock, rows)
    /\ UNCHANGED <<rate_clock, rate_last>>
    /\ UnitFrame("rate")
RateSeedOk(rows) ==
    /\ rate_call.pc = "seed_read"
    /\ rate_call' = [rate_call EXCEPT !.pc = AfterBaseline(rate_clock, rate_clock),
                                      !.timestamp = rate_clock,
                                      !.previous = rows,
                                      !.wake_at = rate_clock + MinIntervalMs,
                                      !.reads = @ + 1]
    /\ UNCHANGED <<rate_clock, rate_state, rate_last>>
    /\ UnitFrame("rate")

\* A raw read fails: the `?` returns the error.
RateReadErr ==
    /\ rate_call.pc \in {"seed_read", "current_read"}
    /\ rate_last' = [NoSample EXCEPT !.result = "err", !.previous = rate_call.previous,
                                     !.reads = rate_call.reads]
    /\ rate_call' = NoCall
    /\ UNCHANGED <<rate_clock, rate_state>>
    /\ UnitFrame("rate")

\* tokio::time::sleep(to_sleep) is over.
RateWake ==
    /\ rate_call.pc = "sleeping"
    /\ rate_clock >= rate_call.wake_at
    /\ rate_call' = [rate_call EXCEPT !.pc = "current_read"]
    /\ UNCHANGED <<rate_clock, rate_state, rate_last>>
    /\ UnitFrame("rate")

\* The current read answers: the call compares the row counts, computes the
\* usage, stores (now, current) and returns.
RateCurrentOk(rows) ==
    /\ rate_call.pc = "current_read"
    /\ rate_state' = StoreCurrent(rate_state, rate_call.previous, rows, rate_clock)
    /\ rate_last' = [SampleOf(rate_call.previous, rows) EXCEPT
                         !.reads = rate_call.reads + 1]
    /\ rate_call' = NoCall
    /\ UNCHANGED rate_clock
    /\ UnitFrame("rate")

\* The future of the call is dropped at a suspension point.
RateDrop ==
    /\ rate_call.pc # "idle"
    /\ rate_call' = NoCall
    /\ UNCHANGED <<rate_clock, rate_state, rate_last>>
    /\ UnitFrame("rate")

NextRate ==
    \/ RateTick
    \/ RateCall
    \/ \E rows \in RawReads : RateSeedOk(rows)
    \/ RateReadErr
    \/ RateWake
    \/ \E rows \in RawReads : RateCurrentOk(rows)
    \/ RateDrop

SpecRate == InitDefault /\ [][NextRate]_vars

\* The end of docker_stats(): *prev_cpu_stats = current_cpu_stats, Ok(..),
\* and the guard goes out of scope.
DockerReturnMerging(cycle) ==
    /\ prev_cpu_stats' = [c \in Containers |->
                             IF cycle.current_cpu_stats[c].some
                             THEN cycle.current_cpu_stats[c] ELSE prev_cpu_stats[c]]
    /\ docker_last' = [result |-> "ok", usage |-> cycle.usage,
                       readings |-> cycle.readings,
                       had_baseline |-> [c \in Containers |-> prev_cpu_stats[c].some]]
    /\ docker_cycle' = NoCycle
DockerReturn(cycle) ==
    /\ prev_cpu_stats' = cycle.current_cpu_stats
    /\ docker_last' = [result |-> "ok", usage |-> cycle.usage,
                       readings |-> cycle.readings,
                       had_baseline |-> [c \in Containers |-> prev_cpu_stats[c].some]]
    /\ docker_cycle' = NoCycle

\* docker_stats() is called and the daemon lists its containers; the call
\* takes the baseline lock and asks for the stats of the first one.  With
\* nothing listed it returns at once.
DockerList(list) ==
    LET cycle == [NoCycle EXCEPT !.pc = "stats", !.guard = TRUE, !.pending = list] IN
    /\ docker_cycle.pc = "idle"
    /\ IF list = << >>
       THEN DockerReturn(cycle)
       ELSE /\ docker_cycle' = cycle
            /\ docker_last' = NoDockerStats
            /\ UNCHANGED prev_cpu_stats
    /\ UnitFrame("docker")

\* Connecting to the daemon or listing the containers fails.
DockerListErr ==
    /\ docker_cycle.pc = "idle"
    /\ docker_last' = [NoDockerStats EXCEPT !.result = "err"]
    /\ UNCHANGED <<prev_cpu_stats, docker_cycle>>
    /\ UnitFrame("docker")

\* The stats stream of the first pending container yields its reading, which
\* is compared with the baseline map behind the guard the call holds; after
\* the last container the baseline map is replaced and the call returns.
DockerStats(reading) ==
    LET c == Head(docker_cycle.pending)
        r == CpuUsage(reading, prev_cpu_stats[c])
        cycle == [docker_cycle EXCEPT
                     !.pending = Tail(@),
                     !.readings[c] = reading,
                     !.usage[c] = IF reading.kind = "skipped" THEN NoUsage ELSE r.usage,
                     !.current_cpu_stats[c] =
                         IF reading.kind = "skipped" THEN @ ELSE r.measurement]
    IN
    /\ docker_cycle.pc = "stats"
    /\ IF cycle.pending = << >>
       THEN DockerReturn(cycle)
       ELSE /\ docker_cycle' = cycle
            /\ UNCHANGED <<prev_cpu_stats, docker_last>>
    /\ UnitFrame("docker")

\* The future of the call is dropped while it waits for a stats stream.
DockerDrop ==
    /\ docker_cycle.pc = "stats"
    /\ docker_cycle' = NoCycle
    /\ UNCHANGED <<prev_cpu_stats, docker_last>>
    /\ UnitFrame("docker")

NextDocker ==
    \/ \E list \in ContainerLists : DockerList(list)
    \/ DockerListErr
    \/ \E reading \in ContainerReadings : DockerStats(reading)
    \/ DockerDrop

SpecDocker == InitDefault /\ [][NextDocker]_vars

\* params.insert(key, value) for a key the table does not hold yet.
UpsParamInsert(key, value) ==
    /\ ~ups_device.returned
    /\ key \notin DOMAIN ups_params
    /\ Cardinality(DOMAIN ups_params) < MaxParams
    /\ ups_params' = [k \in DOMAIN ups_params \cup {key} |->
                         IF k = key THEN value ELSE ups_params[k]]
    /\ UNCHANGED ups_device
    /\ UnitFrame("ups")

\* collect_device_parameters(device, parameters) is called.
UpsCollect ==
    /\ ~ups_device.returned
    /\ ups_device' = [returned |-> TRUE] @@ CollectDeviceParameters(ups_params)
    /\ UNCHANGED ups_params
    /\ UnitFrame("ups")

NextUps ==
    \/ \E key \in ParamKeys, value \in ParamValues : UpsParamInsert(key, value)
    \/ UpsCollect

SpecUps == InitDefault /\ [][NextUps]_vars

\* UpsCollector::collect calls ups_stats(): TcpStream::connect is awaited.
NutStart ==
    /\ nut_session.pc \in {"idle", "done", "failed"}
    /\ nut_session.stored.timestamp < MaxCycles
    /\ nut_session' = [NoSession EXCEPT !.pc = "connecting",
                                        !.stored = nut_session.stored]
    /\ nut_log' = << >>
    /\ UnitFrame("nut")

\* The connection is there: LIST UPS is written and the first line awaited.
NutConnected ==
    /\ nut_session.pc = "connecting"
    /\ nut_session' = [nut_session EXCEPT !.pc = "listing_devices"]
    /\ nut_log' = nut_log \o <<Event("connect", ""), Event("list_ups", "")>>
    /\ UnitFrame("nut")

\* connect, a write or a read_line fails: the `?` of ups_stats returns the
\* error and the `?` of collect() returns it before the lock is taken.
NutIoErrPartial ==
    /\ nut_session.pc \in {"connecting", "listing_devices", "listing_parameters"}
    /\ nut_session' =
          [nut_session EXCEPT
              !.pc = "failed",
              !.stored = StoreMeasurement("ups", @,
                             UpsStats(@.timestamp + 1, nut_session.devices))]
    /\ UNCHANGED nut_log
    /\ UnitFrame("nut")
NutIoErr ==
    /\ nut_session.pc \in {"connecting", "listing_devices", "listing_parameters"}
    /\ nut_session' = [nut_session EXCEPT !.pc = "failed", !.devices = << >>,
                                          !.stored = StoreOnFailure("ups", @)]
    /\ UNCHANGED nut_log
    /\ UnitFrame("nut")

\* A listing has been read to its end, by its terminator line (ending "")
\* or by the end of the stream (ending "eof"), with `names` discovered, `devices`
\* collected and `listed` LIST VAR commands answered: the next LIST VAR is
\* written, or the call returns its UpsStats, stamped with an instant later
\* than that of the stored one, and collect() hands them to the store rule.
NutAdvance(names, devices, listed, ending) ==
    IF listed < Len(names)
    THEN /\ nut_session' = [pc |-> "listing_parameters", names |-> names,
                            device |-> listed + 1, lines |-> 0, params |-> NoParams,
                            devices |-> devices, stored |-> nut_session.stored]
         /\ nut_log' = nut_log \o <<Event("end", ending),
                                    Event("list_var", NextDevice(names, listed))>>
    ELSE /\ nut_session' = [pc |-> "done", names |-> names, device |-> listed,
                            lines |-> 0, params |-> NoParams, devices |-> devices,
                            stored |-> StoreMeasurement("ups", nut_session.stored,
                                           UpsStats(nut_session.stored.timestamp + 1,
                                                    devices))]
         /\ nut_log' = Append(nut_log, Event("end", ending))

\* A line of the LIST UPS response arrives.
NutUpsLine(line) ==
    /\ nut_session.pc = "listing_devices"
    /\ ~StreamEnded(nut_log)
    /\ IF IsEndListUps(line)
       THEN NutAdvance(nut_session.names, << >>, 0, "")
       ELSE /\ nut_session.lines < MaxLines
            /\ nut_session' = [nut_session EXCEPT
                                   !.names = ParseUpsLine(@, line), !.lines = @ + 1]
            /\ UNCHANGED nut_log
    /\ UnitFrame("nut")

\* A line of a LIST VAR response arrives.
NutVarLine(line) ==
    /\ nut_session.pc = "listing_parameters"
    /\ ~StreamEnded(nut_log)
    /\ IF IsEndListVar(line)
       THEN NutAdvance(nut_session.names,
                       Append(nut_session.devices,
                              [device_name |-> nut_session.names[nut_session.device],
                               stats |-> CollectDeviceParameters(nut_session.params)]),
                       nut_session.device, "")
       ELSE /\ nut_session.lines < MaxLines
            /\ nut_session' = [nut_session EXCEPT
                                   !.params = ParseVarLine(@, line), !.lines = @ + 1]
            /\ UNCHANGED nut_log
    /\ UnitFrame("nut")

\* read_line returns 0 and the loop's `> 0` test fails like a `break`: the
\* stream has ended, and with it the listing.
NutEofFailing ==
    /\ nut_session.pc \in {"listing_devices", "listing_parameters"}
    /\ nut_session' = [nut_session EXCEPT !.pc = "failed", !.devices = << >>,
                                          !.stored = StoreOnFailure("ups", @)]
    /\ nut_log' = Append(nut_log, Event("end", "eof"))
    /\ UnitFrame("nut")
NutEof ==
    /\ \/ /\ nut_session.pc = "listing_devices"
          /\ NutAdvance(nut_session.names, << >>, 0, "eof")
       \/ /\ nut_session.pc = "listing_parameters"
          /\ NutAdvance(nut_session.names,
                         Append(nut_session.devices,
                                [device_name |-> nut_session.names[nut_session.device],
                                 stats |-> CollectDeviceParameters(nut_session.params)]),
                         nut_session.device, "eof")
    /\ UnitFrame("nut")

\* The future of the call is dropped while it waits for the server.
NutDrop ==
    /\ nut_session.pc \in {"connecting", "listing_devices", "listing_parameters"}
    /\ nut_session' = [NoSession EXCEPT !.stored = nut_session.stored]
    /\ nut_log' = << >>
    /\ UnitFrame("nut")

NextNut ==
    \/ NutStart
    \/ NutConnected
    \/ NutIoErr
    \/ \E line \in UpsLines : NutUpsLine(line)
    \/ \E line \in VarLines : NutVarLine(line)
    \/ NutEof
    \/ NutDrop

SpecNut == InitDefault /\ [][NextNut]_vars

\* disk_temps() is called: smartctl --scan is awaited.
SmartStart ==
    /\ smart_cycle.pc \in {"idle", "done", "failed"}
    /\ smart_cycle' = [NoSmartCycle EXCEPT !.pc = "scanning"]
    /\ UnitFrame("smart")

\* The scan names its devices: one query per device is pushed and polled.
\* With no device the loop ends at once and the call returns.
SmartScan(paths) ==
    /\ smart_cycle.pc = "scanning"
    /\ smart_cycle' = [smart_cycle EXCEPT
                           !.pc = IF paths = {} THEN "done" ELSE "querying",
                           !.scanned = paths]
    /\ UnitFrame("smart")

\* The scan cannot be run or its output is no JSON: the `?` returns.
SmartScanErr ==
    /\ smart_cycle.pc = "scanning"
    /\ smart_cycle' = [smart_cycle EXCEPT !.pc = "failed"]
    /\ UnitFrame("smart")

\* The query of one device ends, in any order: its report is pushed, or it
\* is logged and left out.  After the last one the call returns Ok.
SmartQueried(path, outcome) ==
    LET result == QueryDevice(outcome)
        results == [smart_cycle.results EXCEPT ![path] = result]
    IN
    /\ smart_cycle.pc = "querying"
    /\ path \in smart_cycle.scanned
    /\ smart_cycle.results[path] = "none"
    /\ smart_cycle' =
          [smart_cycle EXCEPT
              !.pc = IF \A d \in smart_cycle.scanned : results[d] # "none"
                     THEN "done" ELSE "querying",
              !.outcomes[path] = outcome,
              !.results = results,
              !.sata = IF result = "sata" THEN Append(@, path) ELSE @,
              !.nvme = IF result = "nvme" THEN Append(@, path) ELSE @]
    /\ UnitFrame("smart")

\* The future of the call is dropped while it waits for smartctl.
SmartDrop ==
    /\ smart_cycle.pc \in {"scanning", "querying"}
    /\ smart_cycle' = NoSmartCycle
    /\ UnitFrame("smart")

NextSmart ==
    \/ SmartStart
    \/ \E paths \in SUBSET DevicePaths : SmartScan(paths)
    \/ SmartScanErr
    \/ \E path \in DevicePaths, outcome \in QueryOutcomes : SmartQueried(path, outcome)
    \/ SmartDrop

SpecSmart == InitDefault /\ [][NextSmart]_vars

\* ------------------------------------------------------------- helpers
\* The positions of the events of one kind in the session's log.
LogIndex(log, ev) == {i \in DOMAIN log : log[i].ev = ev}

\* How far a session has come: Connected, ListingDevices,
\* ListingParameters(device), Done.
SessionRank(session) ==
    CASE session.pc = "idle" -> 0
      [] session.pc = "connecting" -> 1
      [] session.pc = "listing_devices" -> 2
      [] session.pc = "listing_parameters" -> 2 + session.device
      [] OTHER -> 3 + MaxLines

\* The results a collect() can have returned with.
Completed == {"ok", "ok_stale", "err"}
\* The results of a collect() whose data source failed.
SourceFailed == {"ok_stale", "err"}

\* What is stored for probe p in measurements m and gauges g.
Stored(m, g, p) ==
    IF p \in SnapshotProbes THEN m[p]
    ELSE IF p = "memory_usage" THEN MemoryGauges(g)
    ELSE [total_usage |-> g.total_usage, total_breakdown |-> g.total_breakdown]

\* Probe q's stored value was written at or after instant t: its snapshot
\* carries a timestamp of t or later, or every group of its gauges was set
\* at t or later (the swap gauges exist only with report_swap).
UpdatedSince(q, t) ==
    IF q \in SnapshotProbes
    THEN measurements[q].present /\ measurements[q].timestamp >= t
    ELSE IF q = "memory_usage"
    THEN /\ gauges_set_at["ram"] >= t
         /\ report_swap => gauges_set_at["swap"] >= t
    ELSE gauges_set_at["cpu_usage"] >= t

LastFanout == fanout_starts[Len(fanout_starts)]

\* ------------------------------------------------------------------ C1
\* C1: any two refresh fan-outs start more than the TTL apart, so a render
\* issued within the TTL of a fan-out's start triggers no second fan-out.
C1_TtlGate ==
    \A i, j \in DOMAIN fanout_starts :
        i < j => fanout_starts[j] - fanout_starts[i] > TtlMs

\* A render issued within the TTL after the only fan-out so far was answered
\* without a refresh.
C1_Witness ==
    /\ Len(fanout_starts) = 1
    /\ last_resp.gate = "fresh"
    /\ last_resp.at - fanout_starts[1] > 0
    /\ last_resp.at - fanout_starts[1] <= TtlMs

\* ------------------------------------------------------------------ C2
\* C2: a render that arrives while another render holds the scrape-cache
\* lock is answered in that same run: it does not start or wait for a
\* refresh, invokes no collect(), changes nothing stored, and its body is
\* what is stored at that instant.
C2_NonBlocking ==
    [][\A r \in Renders :
          ( /\ pc[r] = "idle"
            /\ lock_holder # NoRender
            /\ lock_holder # r
            /\ (pc'[r] # "idle" \/ last_resp'.render = r) )
          => /\ pc'[r] = "idle"
             /\ coll' = coll
             /\ now' = now
             /\ lock_holder' = lock_holder
             /\ measurements' = measurements
             /\ gauges' = gauges
             /\ last_resp'.status = 200
             /\ last_resp'.gate = "busy"
             /\ last_resp'.body = Gather(measurements, gauges)]_vars

\* A render was answered while another render's fan-out is in flight.
C2_Witness ==
    /\ last_resp.gate = "busy"
    /\ \E r \in Renders :
          /\ r # last_resp.render
          /\ pc[r] = "refreshing"
          /\ \E p \in Probes : coll[r][p] = "running"

\* ------------------------------------------------------------------ C3
\* C3: once the data source of one probe has failed in a fan-out, no other
\* collect() of that fan-out is dropped: each is still running or has
\* returned, each that returned Ok has stored its reading, and the render
\* that joins them answers 200 with the stored metrics.
C3_PartialFailure ==
    /\ \A r \in Renders :
          (pc[r] = "refreshing" /\ \E p \in Probes : coll[r][p] \in SourceFailed)
          => \A q \in Probes :
                /\ coll[r][q] \in Completed \cup {"running"}
                /\ (coll[r][q] = "ok" /\ enabled[q]) => UpdatedSince(q, started[r])
    /\ ( /\ last_resp.gate = "refresh"
         /\ \E p \in Probes : last_resp.results[p] \in SourceFailed )
       => /\ last_resp.status = 200
             => /\ \A q \in Probes :
                      /\ last_resp.results[q] \in Completed
                      /\ (last_resp.results[q] = "ok" /\ enabled[q])
                         => UpdatedSince(q, LastFanout)
                /\ last_resp.body = Gather(measurements, gauges)
          /\ last_resp.status = 500
             => \E q \in Probes : last_resp.results[q] = "dropped"

\* A refreshing render answered 200 although one collect() returned Err,
\* another probe of the same fan-out having stored its reading.
C3_Witness ==
    /\ last_resp.gate = "refresh"
    /\ last_resp.status = 200
    /\ \E p, q \in Probes :
          /\ last_resp.results[p] = "err"
          /\ last_resp.results[q] = "ok"
          /\ enabled[q]
          /\ UpdatedSince(q, LastFanout)

\* ------------------------------------------------------------------ C4
\* What was stored for probe p when render r's collect() of it was created.
\* Only that call writes the probe's store while it is pending, and every
\* call but memory_usage's writes in the step in which it returns.
StoredBeforeCall(r, p) ==
    IF p = "memory_usage" THEN mem_call[r].before
    ELSE Stored(measurements, gauges, p)

\* C4 (as claimed): for every probe, a collect() that returns with its data
\* source failed leaves what is stored for that probe (its snapshot, or its
\* exported gauges) exactly as it was before the call, and a response
\* encoded in that step shows it.
C4_StaleRetention ==
    [][\A r \in Renders, p \in Probes :
          ( /\ coll[r][p] = "running"
            /\ \/ coll'[r][p] \in SourceFailed
               \/ /\ last_resp'.render = r
                  /\ last_resp'.status = 200
                  /\ last_resp'.results[p] \in SourceFailed )
          => /\ Stored(measurements', gauges', p) = StoredBeforeCall(r, p)
             /\ last_resp'.render = r
                => Stored(last_resp'.body.measurements, last_resp'.body.gauges, p)
                   = StoredBeforeCall(r, p)]_vars

\* ------------------------------------------------------------------ C5
\* C5 (as claimed): for every snapshot-caching collector the stored
\* timestamp never decreases; a snapshot delivered with an older timestamp
\* leaves the newer one in place.
C5_MonotonicReplace ==
    [][\A k \in DeliverKinds :
          delivered[k].present
          => /\ delivered'[k].present
             /\ delivered'[k].timestamp >= delivered[k].timestamp]_vars

\* ------------------------------------------------------------------ C6
\* C6 (as claimed): every response shows, for each probe, either all that
\* was stored before a collect() or all that the collect() stores, never a
\* part of each: the two fields of a snapshot come from one reading, so do
\* the cpu_usage gauges, and a response encoded while a collect() of
\* memory_usage is between its two reads shows the memory gauges as they
\* were before that call.
C6_AtomicVisibility ==
    /\ \A p \in SnapshotProbes :
          last_resp.body.measurements[p].first = last_resp.body.measurements[p].second
    /\ last_resp.body.gauges.total_usage = last_resp.body.gauges.total_breakdown
    /\ \A r \in Renders :
          (last_resp.status = 200 /\ mem_call[r].pc = "ram_read")
          => MemoryGauges(last_resp.body.gauges) = mem_call[r].before

\* ------------------------------------------------------------------ C7
\* C7 (as claimed): a single data source that fails or never answers never
\* makes a response an error: a 500 is sent only when more than one
\* collect() was still unanswered.
C7_AlwaysMetrics ==
    last_resp.status = 500
    => Cardinality({p \in Probes : last_resp.results[p] = "dropped"}) > 1

\* ------------------------------------------------------------------ C8
\* C8 (as claimed): when the request's timeout fires, a collect() that is
\* still running is not cancelled: it is still running afterwards.
C8_OrphanedCompletion ==
    [][\A r \in Renders, p \in Probes :
          ( /\ coll[r][p] = "running"
            /\ last_resp'.render = r
            /\ last_resp'.status = 500 )
          => coll'[r][p] = "running"]_vars

\* ------------------------------------------------------------------ C9
\* C9: the scrape-cache timestamp starts stale, so the first render after
\* start-up performs a refresh fan-out before it renders.  Until the first
\* fan-out has begun the stored timestamp is older than the TTL and the
\* lock is free, so a render that arrives can only take the refresh branch
\* and never the branch that skips it; no response has been sent and no
\* render is under way; and whenever a response has been sent, a fan-out
\* began no later than the instant it was encoded.
C9_FirstRenderRefreshes ==
    /\ Len(fanout_starts) = 0
       => /\ TtlExpired(now, last_collection)
          /\ TryLock(lock_holder)
          /\ last_resp = NoResponse
          /\ \A r \in Renders :
                /\ pc[r] = "idle"
                /\ ENABLED MetricsRefresh(r)
                /\ ~ENABLED MetricsNoRefresh(r)
    /\ last_resp # NoResponse
       => /\ Len(fanout_starts) >= 1
          /\ fanout_starts[1] <= last_resp.at

\* The first render after start-up has ended its fan-out and been answered.
C9_Witness ==
    /\ Len(fanout_starts) = 1
    /\ last_resp.gate = "refresh"
    /\ last_resp.status = 200
    /\ last_resp.at = fanout_starts[1]

\* ----------------------------------------------------------------- C10
\* C10 (as claimed): for any two snapshots of one collector, delivering
\* them in either order leaves the same snapshot stored.
C10_Commutative ==
    \A k \in DeliverKinds, t1, t2 \in 0..MaxDeliverTs, v1, v2 \in Readings :
        StoreMeasurement(k, StoreMeasurement(k, delivered[k], Snapshot(t1, v1)),
                         Snapshot(t2, v2))
        = StoreMeasurement(k, StoreMeasurement(k, delivered[k], Snapshot(t2, v2)),
                           Snapshot(t1, v1))

\* ----------------------------------------------------------------- C11
\* C11: a probe configured with enabled = false runs the no-op collector:
\* its collect() is never pending on a data source and never fails, nothing
\* is ever stored for it, and no response carries a descriptor or a sample
\* of it.
C11_DisabledIsNoOp ==
    \A p \in Probes :
        ~enabled[p]
        => /\ \A r \in Renders : coll[r][p] \in {"idle", "ok"}
           /\ last_resp.results[p] \in {"idle", "ok"}
           /\ Stored(measurements, gauges, p) = Stored(NoBody.measurements, NoBody.gauges, p)
           /\ p \notin last_resp.body.descs
           /\ Stored(last_resp.body.measurements, last_resp.body.gauges, p)
              = Stored(NoBody.measurements, NoBody.gauges, p)

\* A fan-out that polled a disabled probe next to an enabled one has been
\* joined and answered: the enabled probe is in the body with its reading.
C11_Witness ==
    /\ last_resp.gate = "refresh"
    /\ last_resp.status = 200
    /\ \E p, q \in Probes :
          /\ ~enabled[p]
          /\ last_resp.results[p] = "ok"
          /\ enabled[q]
          /\ last_resp.results[q] = "ok"
          /\ q \in last_resp.body.descs
          /\ UpdatedSince(q, LastFanout)

\* ----------------------------------------------------------------- C12
\* C12: in what a gather returns, every entity of the snapshot has, for
\* every descriptor, exactly one sample with its labels and its value when
\* the field is present, and no sample at all when the field is absent.
C12_SparseEmission ==
    emit_out.kind \in EmitKinds
    => \A i \in DOMAIN emit_stats.devices, d \in DescSet(emit_out.kind) :
          LET e == emit_stats.devices[i]
              found == SamplesOf(emit_out.families, d, e.device)
          IN IF e.fields[d].some
             THEN /\ Cardinality(found) = 1
                  /\ \A s \in found :
                        emit_out.families[s[1]].metric[s[2]].value = e.fields[d].v
             ELSE found = {}

\* A gather over two entities: one has a field present with the value 0,
\* the other has the same field absent.
C12_Witness ==
    /\ emit_out.kind = "disk_smart"
    /\ Len(emit_stats.devices) = 2
    /\ emit_stats.devices[1].fields["wear_level"] = Some(0)
    /\ emit_stats.devices[2].fields["wear_level"] = None
    /\ Cardinality(SamplesOf(emit_out.families, "wear_level", emit_stats.devices[1].device)) = 1

\* ----------------------------------------------------------------- C13
\* C13: when the total-time columns moved, the ratio returned for every
\* column is its saturating delta over the sum of the saturating deltas of
\* the total-time columns, and busy is max(0, 1 - idle - iowait); the rows
\* of the standard test give busy 3/10, user 2/10, system 1/10, idle 6/10,
\* iowait 1/10.
C13_RateComputation ==
    LET D(i) == IF usage_curr[i] > usage_prev[i] THEN usage_curr[i] - usage_prev[i] ELSE 0
        T == D(0) + D(1) + D(2) + D(3) + D(4) + D(5) + D(6) + D(7)
    IN usage_out.returned
       => /\ T > 0
             => /\ \A i \in Columns : RatEq(usage_out.times[i], Ratio(D(i), T))
                /\ RatEq(usage_out.busy,
                         IF T - D(CPU_IDLE) - D(CPU_IOWAIT) > 0
                         THEN Ratio(T - D(CPU_IDLE) - D(CPU_IOWAIT), T)
                         ELSE Ratio(0, 1))
          /\ ( /\ usage_prev = [i \in Columns |-> IF i = 3 THEN 100 ELSE 0]
               /\ usage_curr = [i \in Columns |->
                                  CASE i = 0 -> 20 [] i = 2 -> 10 [] i = 3 -> 160
                                    [] i = 4 -> 10 [] OTHER -> 0] )
             => /\ RatEq(usage_out.busy, Ratio(3, 10))
                /\ RatEq(usage_out.times[CPU_USER], Ratio(2, 10))
                /\ RatEq(usage_out.times[CPU_SYSTEM], Ratio(1, 10))
                /\ RatEq(usage_out.times[CPU_IDLE], Ratio(6, 10))
                /\ RatEq(usage_out.times[CPU_IOWAIT], Ratio(1, 10))

\* calculate_usage has returned for the rows of the standard test.
C13_Witness ==
    /\ usage_out.returned
    /\ usage_prev[CPU_IDLE] = 100
    /\ usage_curr[CPU_IDLE] = 160
    /\ usage_curr[CPU_USER] = 20
    /\ RatEq(usage_out.busy, Ratio(3, 10))

\* ----------------------------------------------------------------- C14
\* C14: no delta calculate_usage works from is negative, and when no column
\* of the current row exceeds the previous one every delta is 0 and busy
\* and every ratio are returned as 0.
C14_SaturatingDelta ==
    usage_out.returned
    => /\ \A i \in Columns : usage_out.deltas[i] >= 0
       /\ (\A i \in Columns : usage_curr[i] <= usage_prev[i])
          => /\ \A i \in Columns : usage_out.deltas[i] = 0
             /\ \A i \in Columns : usage_out.times[i] = Ratio(0, 1)
             /\ usage_out.busy = Ratio(0, 1)

\* calculate_usage has returned for a current row that went backwards:
\* some column is below its previous value and none is above.
C14_Witness ==
    /\ usage_out.returned
    /\ \E i \in Columns : usage_curr[i] < usage_prev[i]
    /\ \A i \in Columns : usage_curr[i] <= usage_prev[i]
    /\ usage_out.busy = Ratio(0, 1)

\* ----------------------------------------------------------------- C15
\* C15: a rate sample whose current read has another number of rows than
\* its baseline returns an error, and the step in which it returns leaves
\* the stored RateState as it was, which is as it was when the call began.
C15_TopologyChange ==
    [][( /\ rate_call.pc = "current_read"
         /\ rate_last'.result # "none"
         /\ Len(rate_last'.current) # Len(rate_call.previous) )
       => /\ rate_last'.result = "err"
          /\ rate_state' = rate_state
          /\ rate_state' = rate_call.entered]_vars

\* A sample failed on a changed row count while a baseline with a
\* different row count is stored.
C15_Witness ==
    /\ rate_last.result = "err"
    /\ rate_last.current # << >>
    /\ rate_state.present
    /\ Len(rate_last.current) # Len(rate_state.rows)
    /\ rate_state.rows = rate_last.previous

\* ----------------------------------------------------------------- C16
\* C16: in the step that ends a docker_stats() cycle, a container that had
\* a baseline and whose container-cpu delta or system-cpu delta against it
\* is not positive, or whose usage comes out above its online cpu count,
\* has no cpu usage in the result, and its baseline becomes the reading.
C16_ContainerCpu ==
    [][docker_last'.result = "ok" /\ docker_cycle.pc = "stats"
       => \A c \in Containers :
             LET reading == docker_last'.readings[c]
                 previous == prev_cpu_stats[c]
                 cpu_delta == reading.total - previous.total
                 sys_delta == reading.system - previous.system
                 cpus == IF reading.online_cpus = 0 THEN 1 ELSE reading.online_cpus
             IN ( /\ reading.kind = "cpu"
                  /\ previous.some
                  /\ \/ cpu_delta <= 0
                     \/ sys_delta <= 0
                     \/ cpu_delta * cpus > cpus * sys_delta )
                => /\ ~docker_last'.usage[c].some
                   /\ prev_cpu_stats'[c] = CpuStats(reading.total, reading.system)]_vars

\* A cycle read, for a container that had a baseline, a container-cpu
\* counter of 0, which no baseline is below: the container has no usage
\* and its baseline is that reading.
C16_Witness ==
    /\ docker_last.result = "ok"
    /\ \E c \in Containers :
          /\ docker_last.had_baseline[c]
          /\ docker_last.readings[c].kind = "cpu"
          /\ docker_last.readings[c].total = 0
          /\ ~docker_last.usage[c].some
          /\ prev_cpu_stats[c] = CpuStats(0, docker_last.readings[c].system)

\* ----------------------------------------------------------------- C17
\* C17: real_power is the explicit reading when one is in the table and
\* numeric; failing that it is nominal_real_power x load when both are
\* there and the nominal is above 0; failing that it is absent.  The same
\* holds of apparent_power.  battery_level and load are the raw percentages
\* over 100.  The table {battery.charge: 80, ups.load: 50,
\* ups.realpower.nominal: 1000} gives 0.8, 0.5 and 500.
C17_PowerDerivation ==
    LET Numeric(k) == k \in DOMAIN ups_params /\ ups_params[k] \in {"0", "50", "80", "1000"}
        Raw(k) == ParseF64(ups_params[k])
        SameValue(a, b) == a.some /\ b.some /\ RatEq(a, b)
        Chain(field, key, alias, nominal) ==
            IF Numeric(key) THEN SameValue(field, Raw(key))
            ELSE IF Numeric(alias) THEN SameValue(field, Raw(alias))
            ELSE IF nominal.some /\ ups_device.load.some /\ nominal.num > 0
                 THEN SameValue(field, Value(nominal.num * ups_device.load.num,
                                             nominal.den * ups_device.load.den))
            ELSE ~field.some
    IN ups_device.returned
       => /\ Chain(ups_device.real_power, "ups.realpower", "output.realpower",
                   ups_device.nominal_real_power)
          /\ Chain(ups_device.apparent_power, "ups.power", "output.power",
                   ups_device.nominal_apparent_power)
          /\ Numeric("battery.charge")
             => SameValue(ups_device.battery_level,
                          Value(Raw("battery.charge").num, 100))
          /\ Numeric("ups.load")
             => SameValue(ups_device.load, Value(Raw("ups.load").num, 100))
          /\ ups_params = [k \in {"battery.charge", "ups.load", "ups.realpower.nominal"} |->
                             CASE k = "battery.charge" -> "80"
                               [] k = "ups.load" -> "50"
                               [] OTHER -> "1000"]
             => /\ SameValue(ups_device.battery_level, Value(8, 10))
                /\ SameValue(ups_device.load, Value(5, 10))
                /\ SameValue(ups_device.real_power, Value(500, 1))

\* The table of the example has been projected: no explicit real power, a
\* nominal one and a load, and the derived real power is there.
C17_Witness ==
    /\ ups_device.returned
    /\ DOMAIN ups_params = {"battery.charge", "ups.load", "ups.realpower.nominal"}
    /\ ups_params["battery.charge"] = "80"
    /\ ups_params["ups.load"] = "50"
    /\ ups_params["ups.realpower.nominal"] = "1000"
    /\ ups_device.real_power.some
    /\ ~ups_device.apparent_power.some

\* ----------------------------------------------------------------- C18
\* C18: on the connection of one cycle there is one connect, first of all;
\* one LIST UPS, before every LIST VAR; every LIST VAR follows the end of
\* the listing before it; the k-th LIST VAR names the k-th discovered
\* device, and a cycle that is done has sent one per discovered device.
\* Within a cycle the session only moves forward.
C18_SessionOrdering ==
    [][LET log == nut_log'
           session == nut_session'
           vars_sent == LogIndex(log, "list_var")
       IN /\ Cardinality(LogIndex(log, "connect")) <= 1
          /\ log # << >> => log[1].ev = "connect"
          /\ Cardinality(LogIndex(log, "list_ups")) <= 1
          /\ \A i \in vars_sent :
                /\ \E j \in LogIndex(log, "list_ups") : j < i
                /\ log[i - 1].ev = "end"
                /\ LET k == Cardinality({j \in vars_sent : j <= i})
                   IN k <= Len(session.names) /\ log[i].arg = session.names[k]
          /\ session.pc = "done" => Cardinality(vars_sent) = Len(session.names)
          /\ session.pc \notin {"idle", "connecting"}
             => SessionRank(session) >= SessionRank(nut_session)]_vars

\* A cycle is done that discovered two different devices and listed the
\* parameters of both.
C18_Witness ==
    /\ nut_session.pc = "done"
    /\ Len(nut_session.names) = 2
    /\ nut_session.names[1] # nut_session.names[2]
    /\ Len(nut_session.devices) = 2
    /\ Cardinality(LogIndex(nut_log, "list_var")) = 2

\* ----------------------------------------------------------------- C19
\* C19: a device whose smartctl run exited with status 2 is skipped, not
\* failed, and is in neither list of the report; the call never fails
\* after its scan succeeded, whatever became of the queries; and when it
\* returns, every device whose run exited with status 0 and printed a JSON
\* document is in one list, once: the NVMe list when the document's type
\* is "nvme", the SATA list otherwise.  A run that exited with status 0
\* and printed no JSON is an error of that device alone and is in no list.
C19_SmartPartial ==
    LET InSata(d) == {i \in DOMAIN smart_cycle.sata : smart_cycle.sata[i] = d}
        InNvme(d) == {i \in DOMAIN smart_cycle.nvme : smart_cycle.nvme[i] = d}
    IN
    /\ smart_cycle.pc = "failed" => smart_cycle.scanned = {}
    /\ \A d \in smart_cycle.scanned :
          LET outcome == smart_cycle.outcomes[d] IN
          /\ (outcome.spawned /\ outcome.status = 2)
             => /\ smart_cycle.results[d] = "skipped"
                /\ InSata(d) = {}
                /\ InNvme(d) = {}
          /\ (outcome.spawned /\ outcome.status = 0 /\ ~outcome.json)
             => /\ smart_cycle.results[d] = "err"
                /\ InSata(d) = {}
                /\ InNvme(d) = {}
          /\ (smart_cycle.pc = "done" /\ outcome.spawned /\ outcome.status = 0
                /\ outcome.json)
             => IF outcome.dev_type = "nvme"
                THEN Cardinality(InNvme(d)) = 1 /\ InSata(d) = {}
                ELSE Cardinality(InSata(d)) = 1 /\ InNvme(d) = {}

\* A cycle has returned Ok with the reports of a SATA and an NVMe device
\* although the run on a third device exited with status 2.
C19_Witness ==
    /\ smart_cycle.pc = "done"
    /\ \E d \in smart_cycle.scanned :
          smart_cycle.outcomes[d].spawned /\ smart_cycle.outcomes[d].status = 2
    /\ Len(smart_cycle.sata) = 1
    /\ Len(smart_cycle.nvme) = 1
    /\ \A d \in smart_cycle.scanned : smart_cycle.outcomes[d].status # 2
          => smart_cycle.outcomes[d].json /\ smart_cycle.outcomes[d].status = 0

\* C21: the last_collection mutex is released before the fan-out starts: no
\* collect() is running while a render holds it.
C21_NoCollectUnderLock ==
    \A r \in Renders, p \in Probes : coll[r][p] = "running" => lock_holder = NoRender

\* C22: last_collection is set to the start of a fan-out in the step that
\* starts it, before any of its collect() futures exists, and it stays at
\* the start of the latest fan-out whatever becomes of that fan-out: the
\* next fan-out starts more than the TTL after it.
C22_StartConsumesWindow ==
    [][/\ Len(fanout_starts') > 0 => last_collection' = fanout_starts'[Len(fanout_starts')]
       /\ fanout_starts' # fanout_starts
          => /\ last_collection' = now
             /\ \A r \in Renders : pc[r] = "idle" => coll[r] = IdleRow
             /\ Len(fanout_starts) > 0 => now - last_collection > TtlMs]_vars

\* Every collect() of the only fan-out so far has failed (every probe that
\* stores in one step was enabled), nothing is stored, and a later render
\* within the TTL of its start was refused a refresh though the lock was
\* free.
C22_Witness ==
    /\ \A p \in Probes : enabled[p] <=> p # "memory_usage"
    /\ Len(fanout_starts) = 1
    /\ \A p \in SnapshotProbes : measurements[p] = NoSnapshot
    /\ gauges = UnsetGauges
    /\ last_resp.gate = "fresh"
    /\ last_resp.at > fanout_starts[1]
    /\ last_resp.at - fanout_starts[1] <= TtlMs

\* C23: no probe performs I/O while it holds the lock of its stored value
\* or of its rate baseline.  For the docker probe: the call does not hold
\* the guard of prev_cpu_stats while it waits for a container's stats
\* stream to answer.
C23_NoIoUnderLock ==
    (docker_cycle.pc = "stats" /\ docker_cycle.pending # << >>) => ~docker_cycle.guard

\* C24: a poisoned lock stops neither the fan-out nor the render.  With the
\* cpu_usage lock poisoned that collect() returns Err as soon as it is
\* polled and never sets a gauge, while the ups collect() is issued as
\* ever; with the ups lock poisoned a collect() whose data source answered
\* stores through the recovered lock by the usual rule.  A render that
\* refreshes always has a collect() left to wait for, and when it ends it is
\* answered 200 unless its deadline has passed.
C24_PoisonedLockPolicy ==
    [][\A r \in Renders :
          /\ "cpu_usage" \in poisoned
             => /\ gauges' = gauges
                /\ coll'[r]["cpu_usage"] = "ok" => coll[r]["cpu_usage"] = "ok"
                /\ (fanout_starts' # fanout_starts /\ pc'[r] = "refreshing")
                   => /\ coll'[r]["cpu_usage"] = "err"
                      /\ coll'[r]["ups"] = "running"
          /\ ("ups" \in poisoned /\ coll[r]["ups"] = "running"
                /\ (coll'[r]["ups"] = "ok"
                     \/ (last_resp'.render = r /\ last_resp'.results["ups"] = "ok")))
             => \E v \in Readings :
                    measurements'["ups"] =
                        StoreMeasurement("ups", measurements["ups"], Snapshot(now, v))
          /\ pc'[r] = "refreshing" => \E p \in Probes : coll'[r][p] = "running"
          /\ (pc[r] = "refreshing" /\ pc'[r] = "idle")
             => /\ last_resp'.render = r
                /\ last_resp'.status = 200 \/ now - started[r] >= HttpTimeoutMs]_vars

\* With both locks poisoned a refresh was answered 200: its cpu_usage
\* collect() had failed, its ups collect() had stored the reading of that
\* instant, and the body carries it.
C24_Witness ==
    /\ poisoned = PoisonableProbes
    /\ last_resp.status = 200
    /\ last_resp.gate = "refresh"
    /\ last_resp.results["cpu_usage"] = "err"
    /\ last_resp.results["ups"] = "ok"
    /\ last_resp.body.measurements["ups"].present
    /\ last_resp.body.measurements["ups"].timestamp = last_resp.at
    /\ last_resp.body.gauges = UnsetGauges

\* C25: a sample that returns Ok has made two raw reads when no baseline was
\* stored at its start and one when there was; it was compared with the
\* stored baseline, and it leaves its own current read stored, stamped with
\* the instant of that read, whatever the total delta was.
C25_BaselineChaining ==
    [][(rate_call.pc = "current_read" /\ rate_last'.result = "ok")
       => /\ rate_last'.reads = IF rate_call.entered.present THEN 1 ELSE 2
          /\ rate_state' = RateState(rate_clock, rate_last'.current)
          /\ rate_call.entered.present
             => /\ rate_last'.previous = rate_call.entered.rows
                /\ rate_last'.previous = rate_state.rows]_vars

\* A later sample, of one read, found the counters where its baseline had
\* them, and its read is the stored baseline now.
C25_Witness ==
    /\ rate_last.result = "ok"
    /\ rate_last.reads = 1
    /\ rate_last.current = rate_last.previous
    /\ rate_state = RateState(rate_clock, rate_last.current)
    /\ rate_clock >= 2 * MinIntervalMs

\* C26: the current read of a sample is not awaited before 250 ms have
\* passed since the timestamp of its baseline; a sample that sleeps is to
\* wake 250 ms after that timestamp; and a sample that is suspended, in
\* its sleep or in a raw read, holds no guard of the RateState lock.
C26_MinimumInterval ==
    /\ rate_call.pc = "current_read" => rate_clock - rate_call.timestamp >= MinIntervalMs
    /\ rate_call.pc = "sleeping" => rate_call.wake_at = rate_call.timestamp + MinIntervalMs
    /\ rate_call.pc \in {"seed_read", "sleeping", "current_read"} => ~rate_call.guard

\* A call that found a stored baseline younger than 250 ms sleeps for the
\* remainder.
C26_Witness ==
    /\ rate_call.pc = "sleeping"
    /\ rate_call.entered.present
    /\ rate_call.timestamp = rate_call.entered.timestamp
    /\ rate_clock > rate_call.timestamp
    /\ rate_clock < rate_call.wake_at

\* C27: a sample whose seed read or current read fails returns an error and
\* leaves the stored RateState as it was when the call began; the stored
\* RateState changes only in the step that ends a sample with Ok, every read
\* of which has answered.
C27_FailedReadKeepsState ==
    [][/\ ( /\ rate_call.pc \in {"seed_read", "current_read"}
            /\ rate_last'.result = "err"
            /\ rate_last'.current = << >> )
          => /\ rate_state' = rate_state
             /\ rate_state' = rate_call.entered
       /\ rate_state' # rate_state
          => /\ rate_call.pc = "current_read"
             /\ rate_last'.result = "ok"
             /\ rate_last'.reads = IF rate_call.entered.present THEN 1 ELSE 2]_vars

\* The seed read of a first sample answered and its current read failed:
\* nothing is stored.
C27_Witness ==
    /\ rate_last.result = "err"
    /\ rate_last.current = << >>
    /\ rate_last.reads = 1
    /\ ~rate_state.present

\* C28: when the deltas of the first eight columns sum to more than 0, that
\* sum is the divisor of every ratio returned, those of guest and guest_nice
\* included; the ratios of the first eight columns sum to 1 and busy lies
\* in [0, 1].
C28_RatioDivisor ==
    LET d == usage_out.deltas
        t == usage_out.times
        divisor == d[0] + d[1] + d[2] + d[3] + d[4] + d[5] + d[6] + d[7]
    IN (usage_out.returned /\ divisor > 0)
       => /\ \A i \in Columns : t[i] = Ratio(d[i], divisor)
          /\ t[0].num + t[1].num + t[2].num + t[3].num + t[4].num + t[5].num
                + t[6].num + t[7].num = t[0].den
          /\ usage_out.busy.den > 0
          /\ usage_out.busy.num >= 0
          /\ usage_out.busy.num <= usage_out.busy.den

\* calculate_usage has returned for rows in which guest time was counted
\* along with user and idle time.
C28_Witness ==
    /\ usage_out.returned
    /\ usage_out.deltas[CPU_GUEST] > 0
    /\ usage_out.deltas[CPU_USER] > 0
    /\ usage_out.deltas[CPU_IDLE] > 0
    /\ usage_out.times[CPU_GUEST].num > 0

\* C29: an I/O error while the parameters of a device are listed ends the
\* call with no UpsStats, whatever devices it had collected, and leaves
\* what UpsCollector has stored as it was.
C29_IoErrorAbortsCycle ==
    [][(nut_session.pc = "listing_parameters" /\ nut_session'.pc = "failed")
       => /\ nut_session'.devices = << >>
          /\ nut_session'.stored = nut_session.stored]_vars

\* The call failed while it listed the parameters of its second device, the
\* first one collected, with the UpsStats of an earlier cycle stored.
C29_Witness ==
    /\ nut_session.pc = "failed"
    /\ nut_session.device = 2
    /\ nut_session.devices = << >>
    /\ nut_session.stored.present
    /\ Len(nut_session.stored.devices) = 1

\* C30: a line of a LIST UPS or LIST VAR response that is not of the
\* expected shape adds no device and no parameter: every discovered name
\* was sent in a UPS line, and every parameter held was sent in a VAR line.
C30_MalformedLinesSkipped ==
    /\ \A i \in DOMAIN nut_session.names :
          \E line \in UpsLines :
              Len(line) >= 2 /\ line[1] = "UPS" /\ line[2] = nut_session.names[i]
    /\ \A k \in DOMAIN nut_session.params :
          \E line \in VarLines :
              Len(line) = 4 /\ line[1] = "VAR" /\ line[3] = k

\* C31: a typed field is the value of the first of its aliases, in their
\* fixed order, that the table holds with a numeric value; an alias held
\* with a value that is no number is passed over, and the field is absent
\* only when no alias is held with a number.
C31_AliasResolution ==
    LET Numeric(k) == k \in DOMAIN ups_params /\ ups_params[k] \in {"0", "50", "80", "1000"}
        Number(k) == CASE ups_params[k] = "0" -> 0
                       [] ups_params[k] = "50" -> 50
                       [] ups_params[k] = "80" -> 80
                       [] OTHER -> 1000
        Is(field, k, scale) ==
            field.some /\ field.num * scale = Number(k) * field.den
        Resolved(field, aliases, scale) ==
            IF \E i \in DOMAIN aliases : Numeric(aliases[i])
            THEN LET first == CHOOSE i \in DOMAIN aliases :
                                  /\ Numeric(aliases[i])
                                  /\ \A j \in 1..(i - 1) : ~Numeric(aliases[j])
                 IN Is(field, aliases[first], scale)
            ELSE ~field.some
    IN ups_device.returned
       => /\ Resolved(ups_device.battery_level,
                      <<"battery.charge", "battery.level", "battery.charge.approx">>, 100)
          /\ Resolved(ups_device.load, <<"ups.load", "output.load">>, 100)
          /\ Resolved(ups_device.nominal_apparent_power,
                      <<"ups.power.nominal", "output.power.nominal">>, 1)
          /\ Resolved(ups_device.nominal_real_power,
                      <<"ups.realpower.nominal", "output.realpower.nominal">>, 1)
          /\ Resolved(ups_device.estimated_runtime,
                      <<"battery.runtime", "battery.runtime.low">>, 1)
          /\ Resolved(ups_device.input_voltage, <<"input.voltage">>, 1)
          /\ Resolved(ups_device.output_voltage, <<"output.voltage">>, 1)

\* The table holds battery.charge with "n/a" and battery.level with "50",
\* and the projection has the battery level of the later alias.
C31_Witness ==
    /\ ups_device.returned
    /\ "battery.charge" \in DOMAIN ups_params
    /\ "battery.level" \in DOMAIN ups_params
    /\ ups_params["battery.charge"] = "n/a"
    /\ ups_params["battery.level"] = "50"
    /\ ups_device.battery_level.some
    /\ ups_device.battery_level.num = 50

\* C32: the step that starts a fan-out creates one collect() per probe of
\* the list, the NoOpCollector of a disabled probe included; no collect()
\* is created at any other step, and one that has returned is not run
\* again in its fan-out; a refreshing render's 200 response is encoded
\* when every collect() of its fan-out has returned.
C32_FanOutAndJoin ==
    [][/\ Len(fanout_starts') > Len(fanout_starts)
          => /\ Len(fanout_starts') = Len(fanout_starts) + 1
             /\ \/ \E r \in Renders :
                      /\ pc[r] = "idle" /\ pc'[r] = "refreshing"
                      /\ \A p \in Probes : coll'[r][p] \in Completed \cup {"running"}
                      /\ \A p \in Probes : ~enabled[p] => coll'[r][p] = "ok"
                \/ /\ last_resp'.gate = "refresh"
                   /\ \A p \in Probes : last_resp'.results[p] \in Completed
       /\ \A r \in Renders, p \in Probes :
             /\ (coll[r][p] = "idle" /\ coll'[r][p] # "idle")
                => Len(fanout_starts') = Len(fanout_starts) + 1
             /\ (coll[r][p] \in Completed /\ pc'[r] = "refreshing")
                => coll'[r][p] = coll[r][p]
       /\ (last_resp'.gate = "refresh" /\ last_resp'.status = 200)
          => \A p \in Probes : last_resp'.results[p] \in Completed]_vars

\* A refreshing render answered 200 after a fan-out over one disabled probe
\* and two enabled ones, of which one returned Ok and one Err.
C32_Witness ==
    /\ last_resp.gate = "refresh"
    /\ last_resp.status = 200
    /\ Len(fanout_starts) = 1
    /\ \E p, q, d \in Probes :
          /\ ~enabled[d] /\ enabled[p] /\ enabled[q]
          /\ last_resp.results[d] = "ok"
          /\ last_resp.results[p] = "ok"
          /\ last_resp.results[q] = "err"
          /\ UpdatedSince(p, LastFanout)

\* C33: at most one render is in a fan-out, and it holds the
\* last_collection guard; no probe has two collect() futures running.
C33_SingleFanOut ==
    /\ \A r, q \in Renders : (pc[r] = "refreshing" /\ pc[q] = "refreshing") => r = q
    /\ \A r \in Renders : pc[r] = "refreshing" => lock_holder = r
    /\ \A p \in Probes, r, q \in Renders :
          (coll[r][p] = "running" /\ coll[q][p] = "running") => r = q

\* A fan-out started more than the TTL ago is still running, its deadline
\* reached and not yet acted on: a render issued now is answered from the
\* stored values and starts nothing.
C33_Witness ==
    /\ \E r \in Renders :
          /\ pc[r] = "refreshing"
          /\ now - started[r] > TtlMs
          /\ \E p \in Probes : coll[r][p] = "running"
    /\ ~\E r \in Renders : ENABLED MetricsRefresh(r)

\* C34: the last_collection lock is held only by a render that is in its
\* fan-out, so it is free once a render has answered, whether every probe
\* returned Ok, some failed, or the timeout layer dropped the handler; and
\* with no fan-out running and the last fan-out's start more than the TTL
\* ago, a render issued now refreshes and cannot answer without it.
C34_GateNeverStuck ==
    /\ lock_holder # NoRender => pc[lock_holder] = "refreshing"
    /\ last_resp.gate = "refresh" => lock_holder = NoRender
    /\ ( /\ \A r \in Renders : pc[r] = "idle"
         /\ now - last_collection > TtlMs )
       => \A r \in Renders : ENABLED MetricsRefresh(r) /\ ~ENABLED MetricsNoRefresh(r)

\* The timeout layer has just dropped a render whose fan-out started more
\* than the TTL ago with a collect() still pending; the lock is free and a
\* render issued now refreshes.
C34_Witness ==
    /\ last_resp.status = 500
    /\ \E p \in Probes : last_resp.results[p] = "dropped"
    /\ fanout_starts # << >>
    /\ now - last_collection > TtlMs
    /\ lock_holder = NoRender
    /\ \A r \in Renders : ENABLED MetricsRefresh(r)

\* C35: the step of a render that takes no refresh branch, the lock being
\* held or the last refresh within the TTL, starts no collect() and leaves
\* last_collection, every stored measurement and gauge and every rate
\* baseline as they were; its response shows the stored values.
C35_NoRefreshIsReadOnly ==
    [][last_resp'.gate \in {"fresh", "busy"}
       => /\ last_collection' = last_collection
          /\ fanout_starts' = fanout_starts
          /\ coll' = coll
          /\ pc' = pc
          /\ lock_holder' = lock_holder
          /\ measurements' = measurements
          /\ gauges' = gauges
          /\ rate_state' = rate_state
          /\ prev_cpu_stats' = prev_cpu_stats
          /\ last_resp'.results = IdleRow
          /\ last_resp'.body = Gather(measurements, gauges)]_vars

\* A render was answered while another held the lock in its fan-out, one
\* probe's reading stored and one collect() still running.
C35_Witness ==
    /\ last_resp.gate = "busy"
    /\ last_resp.status = 200
    /\ \E r \in Renders :
          /\ r # last_resp.render
          /\ pc[r] = "refreshing"
          /\ \E p, q \in Probes : coll[r][p] = "running" /\ coll[r][q] = "ok" /\ enabled[q]
    /\ \E p \in SnapshotProbes : last_resp.body.measurements[p].present

\* C36: once a baseline is stored, one stays stored and its number of rows
\* never changes: the baseline is replaced only in the step that ends a
\* sample with Ok, whose current read has the baseline's number of rows;
\* a sample whose current read has another number of rows fails and leaves
\* the baseline as it was, so it fails again on every later read like it.
C36_StickyTopology ==
    [][rate_state.present
       => /\ rate_state'.present
          /\ Len(rate_state'.rows) = Len(rate_state.rows)
          /\ rate_state' # rate_state
             => /\ rate_last'.result = "ok"
                /\ rate_state'.rows = rate_last'.current
          /\ (rate_call.pc = "current_read" /\ rate_last'.result = "ok")
             => Len(rate_last'.current) = Len(rate_state.rows)
          /\ ( /\ rate_call.pc = "current_read"
               /\ rate_last'.result # "none"
               /\ Len(rate_last'.current) # Len(rate_state.rows) )
             => rate_last'.result = "err" /\ rate_state' = rate_state]_vars

\* A sample that began with the stored baseline, two minimum intervals
\* after it was stored, failed on a read of another number of rows, and
\* the baseline is still the one it began with.
C36_Witness ==
    /\ rate_state.present
    /\ rate_clock - rate_state.timestamp >= 2 * MinIntervalMs
    /\ rate_last.result = "err"
    /\ rate_last.reads = 1
    /\ rate_last.previous = rate_state.rows
    /\ rate_last.current # << >>
    /\ Len(rate_last.current) # Len(rate_state.rows)

\* C37: the step in which the stream ends before the terminator of a
\* listing does not fail the call: the names discovered so far are kept,
\* the device being listed is collected from the parameters read so far,
\* the call goes on to the next device or returns, and on return its
\* UpsStats, holding those devices, are stored.
C37_TruncatedResponse ==
    [][(~StreamEnded(nut_log) /\ StreamEnded(nut_log'))
       => /\ nut_session'.pc \in {"listing_parameters", "done"}
          /\ nut_session'.names = nut_session.names
          /\ nut_session.pc = "listing_devices" => nut_session'.devices = << >>
          /\ nut_session.pc = "listing_parameters"
             => nut_session'.devices =
                   Append(nut_session.devices,
                          [device_name |-> nut_session.names[nut_session.device],
                           stats |-> CollectDeviceParameters(nut_session.params)])
          /\ nut_session'.pc = "listing_parameters"
             <=> Len(nut_session'.devices) < Len(nut_session.names)
          /\ nut_session'.pc = "done"
             => /\ nut_session'.stored.present
                /\ nut_session'.stored.devices = nut_session'.devices]_vars

\* The stream ended in the LIST VAR response of the only device after a
\* line with its load: the call returned and the device is stored with
\* that load.
C37_Witness ==
    /\ nut_session.pc = "done"
    /\ Len(nut_session.names) = 1
    /\ nut_log[Len(nut_log)] = Event("end", "eof")
    /\ Cardinality(LogIndex(nut_log, "end")) = 2
    /\ nut_session.stored.present
    /\ Len(nut_session.stored.devices) = 1
    /\ nut_session.stored.devices[1].stats.load.some

\* C38: in the step in which docker_stats() returns Ok, the baseline map
\* becomes the map of the containers whose stats of this cycle carried cpu
\* counters, each with those counters: a container that was not listed,
\* whose stream failed or whose stats had no counters has no baseline
\* afterwards, whatever it had before; and a container without a baseline
\* when the cycle began has no cpu usage in its result.
C38_BaselineMap ==
    [][docker_last'.result = "ok"
       => \A c \in Containers :
             LET reading == docker_last'.readings[c] IN
             /\ prev_cpu_stats'[c].some <=> reading.kind = "cpu"
             /\ reading.kind = "cpu"
                => prev_cpu_stats'[c] = CpuStats(reading.total, reading.system)
             /\ reading.kind # "cpu" => ~docker_last'.usage[c].some
             /\ (docker_cycle.pc = "stats" /\ ~prev_cpu_stats[c].some)
                => ~docker_last'.usage[c].some]_vars

\* A cycle has returned in which one container, which had a baseline, gave
\* an error on its stats stream and has no baseline now, while the other
\* has a usage and its new baseline.
C38_Witness ==
    /\ docker_last.result = "ok"
    /\ \E c, d \in Containers :
          /\ docker_last.had_baseline[c]
          /\ docker_last.readings[c].kind = "skipped"
          /\ ~prev_cpu_stats[c].some
          /\ docker_last.readings[d].kind = "cpu"
          /\ docker_last.usage[d].some
          /\ prev_cpu_stats[d].some

\* C39: while the state of a caching collector is the None it was created
\* with, no successful collect() having stored anything, what its collect()
\* hands to a gather is empty: no family, and so no sample, of that probe.
C39_NothingBeforeFirstCollect ==
    (emit_out.kind # "none" /\ ~emit_stats.present)
    => /\ emit_out.families = << >>
       /\ \A desc \in DescSet(emit_out.kind), id \in 0..MaxEntities :
             SamplesOf(emit_out.families, desc, id) = {}

\* The ups metrics were gathered before anything had been stored.
C39_Witness ==
    /\ emit_out.kind = "ups"
    /\ emit_stats = NoStats
    /\ emit_out.families = << >>

====
